---- MODULE Spec2Model ----
(***************************************************************************)
(* Verification model of the datapack-compiler common crate (dpc-common):  *)
(*   - BuildTree (build_tree.rs): insert / clear_node / redirect /         *)
(*     find_node_id / into_parsing_tree with its in-place partition;       *)
(*   - StaticInterner (intern.rs): intern / resolve over a chunked buffer; *)
(*   - group (parsing_tree.rs): indentation grouping of source lines;      *)
(*   - ParsingTree::parse (parsing_tree.rs) with the argument parsers of   *)
(*     parse/argument.rs;                                                  *)
(*   - SourceFile (source.rs): the text and the offsets of its line        *)
(*     endings under replace_range;                                        *)
(*   - SmallString (smallstring.rs): the inline and the heap form of a     *)
(*     string in one 16-byte value.                                        *)
(* Vectors are modelled as functions over 0..len-1 so that indices are the *)
(* indices of the code.                                                    *)
(***************************************************************************)
EXTENDS Integers, Sequences, FiniteSets, TLC

VARIABLES
    nodes,      \* BuildTree.nodes: 0..n-1 -> BuildNode
    lowered,    \* result of into_parsing_tree once it has been called
    found,      \* last find_node_id call: its path and its result
    clears,     \* number of clear_node calls made
    redirects,  \* number of redirect calls made
    interner,   \* StaticInterner: symbols, entries, buffer
    calls,      \* the intern calls made so far: <<string, symbol returned>>
    text,       \* the source text: a sequence of one-byte characters
    grouped,    \* last group call: its common indent, its offset and its result
    cst,        \* what ParsingTree::parse returned for the text
    source,     \* a SourceFile: text, line_endings, the last byte_to_line call
    small       \* the SmallString values alive and the heap behind them

treeVars == <<nodes, lowered, found, clears, redirects>>

internVars == <<interner, calls>>

textVars == <<text, grouped, cst>>

fileVars == <<source, small>>

vars == <<nodes, lowered, found, clears, redirects, interner, calls, text, grouped,
          cst, source, small>>

(***************************************************************************)
(* Bounds of the model.                                                    *)
(***************************************************************************)
\* largest number of build nodes (ROOT included) a tree grows to
MaxNodes == 4
\* longest path handed to find_node_id
MaxPathLen == 2
\* most clear_node calls in one run
MaxClears == 1
\* most redirect calls in one run
MaxRedirects == 1
\* longest string handed to intern
MaxStrLen == 3
\* most intern calls in one run
MaxInterns == 3
\* size of the interner's first chunk, scaled down from the 4096 bytes of
\* Buffer::new so that short strings make the buffer roll over
FirstChunkSize == 1
\* longest source text handed to group
MaxGroupText == 7
\* largest common indent handed to group
MaxIndent == 1

\* the longest text parsed
MaxParseText == 8

(***************************************************************************)
(* Vectors as functions over 0..len-1.                                     *)
(***************************************************************************)
\* Continue applied to a value that is computed once
Once(value, Continue(_)) == CHOOSE result \in {Continue(v) : v \in {value}} : TRUE

VLen(v) == Cardinality(DOMAIN v)

VPush(v, x) == [i \in 0..VLen(v) |-> IF i < VLen(v) THEN v[i] ELSE x]

VEmpty == [i \in {} |-> 0]

(***************************************************************************)
(* build_tree.rs: BuildNodeId, BuildNode, BuildNodeNext                    *)
(***************************************************************************)
ROOT == 0

\* BuildNodeId::INVALID (usize::MAX), also NonZeroUsize::MAX and the
\* parsing_tree_idx of a node that was never emitted
INVALID == 0 - 1

Children(first_child, count) ==
    [tag |-> "Children", first_child |-> first_child, count |-> count, target |-> INVALID]

RedirectTo(target) ==
    [tag |-> "Redirect", first_child |-> INVALID, count |-> 0, target |-> target]

\* node.rs: Node.  Names are sequences of characters; arg is the Argument
\* kind of an Argument node.
NoArg == "-"

Literal(name) == [kind |-> "Literal", name |-> name, arg |-> NoArg]

ArgumentNode(name, arg) == [kind |-> "Argument", name |-> name, arg |-> arg]

BlockNode == [kind |-> "Block", name |-> <<"{", "B", "L", "O", "C", "K", "}">>, arg |-> NoArg]

NewBuildNode(node) ==
    [next_sibling |-> INVALID,
     next |-> Children(INVALID, 0),
     parsing_tree_idx |-> INVALID,
     node |-> node]

\* the schema nodes the model inserts
NodeChoices == {Literal(<<"a">>), ArgumentNode(<<"x">>, "Bool"), BlockNode}

DefaultTree == [i \in {0} |-> NewBuildNode(Literal(<<"R", "O", "O", "T">>))]

IsRedirect(bt, id) == bt[id].next.tag = "Redirect"


(***************************************************************************)
(* BuildTree::find_node_id.  The redirect-following loop keeps no state    *)
(* but the current id, so once it has taken more steps than there are      *)
(* nodes it has revisited a node and never leaves the loop: "Hang".        *)
(***************************************************************************)
RECURSIVE FollowRedirects(_, _, _)
FollowRedirects(bt, id, fuel) ==
    LET parent == bt[id] IN
    IF parent.next.tag = "Children"
    THEN IF parent.next.count = 0
         THEN [tag |-> "None", id |-> INVALID]
         ELSE [tag |-> "Child", id |-> parent.next.first_child]
    ELSE IF fuel = 0
         THEN [tag |-> "Hang", id |-> INVALID]
         ELSE FollowRedirects(bt, parent.next.target, fuel - 1)

RECURSIVE ScanSiblings(_, _, _)
ScanSiblings(bt, child_id, name) ==
    IF child_id = INVALID THEN INVALID
    ELSE IF bt[child_id].node.name = name THEN child_id
    ELSE ScanSiblings(bt, bt[child_id].next_sibling, name)

RECURSIVE FindFrom(_, _, _, _)
FindFrom(bt, id, path, k) ==
    IF k > Len(path) THEN [tag |-> "Some", id |-> id]
    ELSE LET first == FollowRedirects(bt, id, VLen(bt)) IN
         IF first.tag # "Child" THEN first
         ELSE LET hit == ScanSiblings(bt, first.id, path[k]) IN
              IF hit = INVALID THEN [tag |-> "None", id |-> INVALID]
              ELSE FindFrom(bt, hit, path, k + 1)

FindNodeId(bt, path) == FindFrom(bt, ROOT, path, 1)

(***************************************************************************)
(* BuildTree::insert, clear_node, redirect as functions on the arena; the  *)
(* *Panics predicates are the asserts and panics of each.                  *)
(***************************************************************************)
InsertPanics(bt, parent) ==
    \/ ~(parent < VLen(bt))
    \/ bt[parent].next.tag # "Children"

InsertNode(bt, parent, node) ==
    LET node_idx == VLen(bt)
        new == [NewBuildNode(node) EXCEPT !.next_sibling = bt[parent].next.first_child]
        linked == [bt EXCEPT ![parent].next =
                      Children(node_idx, bt[parent].next.count + 1)]
    IN VPush(linked, new)

ClearPanics(bt, id) == ~(id < VLen(bt))

ClearedNode(bt, id) == [bt EXCEPT ![id].next = Children(INVALID, 0)]

RedirectPanics(bt, id, target) ==
    \/ ~(target < VLen(bt))
    \/ ~(id < VLen(bt))
    \/ bt[target].next.tag = "Redirect"
    \/ bt[id].next.tag = "Redirect"
    \/ bt[id].next.count # 0

RedirectedNode(bt, id, target) == [bt EXCEPT ![id].next = RedirectTo(target)]


(***************************************************************************)
(* partition (build_tree.rs): Hoare-style in-place partition of the slice  *)
(* data[start .. start+len) of the output vector; the predicate is "the    *)
(* node is a Literal".  A ParsingNode moves as a whole (node and children; *)
(* origin is a ghost field naming the build node the entry was made from). *)
(***************************************************************************)
IsLiteralEntry(e) == e.node.kind = "Literal"

RECURSIVE ScanLeft(_, _, _, _)
ScanLeft(data, start, len, l) ==
    IF l < len /\ IsLiteralEntry(data[start + l])
    THEN ScanLeft(data, start, len, l + 1)
    ELSE l

RECURSIVE ScanRight(_, _, _)
ScanRight(data, start, r) ==
    IF r > 0 /\ ~IsLiteralEntry(data[start + r])
    THEN ScanRight(data, start, r - 1)
    ELSE r

Swap(data, i, j) == [data EXCEPT ![i] = data[j], ![j] = data[i]]

RECURSIVE PartitionLoop(_, _, _, _, _)
PartitionLoop(data, start, len, l0, r0) ==
    LET l == ScanLeft(data, start, len, l0)
        r == ScanRight(data, start, r0)
    IN IF l >= r THEN data
       ELSE PartitionLoop(Swap(data, start + l, start + r), start, len, l, r)

\* a partition whose right cursor starts one element short of the slice end
PartitionShortRight(data, start, len) ==
    IF len < 2 THEN data ELSE PartitionLoop(data, start, len, 0, len - 2)

Partition(data, start, len) ==
    IF len = 0 THEN data ELSE PartitionLoop(data, start, len, 0, len - 1)

(***************************************************************************)
(* BuildTree::into_parsing_tree.  The lowering state threads the build     *)
(* tree (for parsing_tree_idx), the output vector pn, the queue rn of      *)
(* redirected slots and a panic flag for the asserts.                      *)
(***************************************************************************)
PlaceholderEntry ==
    [node |-> Literal(<<>>), children |-> <<0, 0>>, origin |-> INVALID]

ExtendBy(pn, count) ==
    [i \in 0..(VLen(pn) + count - 1) |-> IF i < VLen(pn) THEN pn[i] ELSE PlaceholderEntry]

RECURSIVE InsertChildren(_, _, _), InsertLoop(_, _, _, _)
InsertChildren(st, first_child, count) ==
    IF count = 0 THEN st
    ELSE LET start == VLen(st.pn)
             end == start + count
             allocated == [st EXCEPT !.pn = ExtendBy(st.pn, count)]
             filled == InsertLoop(allocated, first_child, start, end)
         IN IF filled.panic THEN filled
            ELSE [filled EXCEPT !.pn = Partition(filled.pn, start, count)]

InsertLoop(st, node_id, i, end) ==
    IF st.panic THEN st
    ELSE IF i = end
    THEN [st EXCEPT !.panic = (node_id # INVALID)]
    ELSE IF node_id = INVALID
    THEN [st EXCEPT !.panic = TRUE]
    ELSE LET base == VLen(st.pn)
             bn == st.bt[node_id]
             named == [st EXCEPT !.pn[i].node = bn.node, !.pn[i].origin = node_id]
             descended ==
                 IF bn.next.tag = "Children"
                 THEN LET sub == InsertChildren(named, bn.next.first_child, bn.next.count)
                      IN [sub EXCEPT !.pn[i].children = <<base, base + bn.next.count>>]
                 ELSE [named EXCEPT !.rn = Append(@, <<i, bn.next.target>>)]
             recorded == [descended EXCEPT !.bt[node_id].parsing_tree_idx = i]
         IN InsertLoop(recorded, bn.next_sibling, i + 1, end)

RECURSIVE ResolveRedirects(_, _, _, _, _)
ResolveRedirects(pn, bt, rn, k, count) ==
    IF k > Len(rn) THEN [panic |-> FALSE, pn |-> pn]
    ELSE LET parsing_node_idx == rn[k][1]
             target_id == rn[k][2]
         IN IF target_id = ROOT
            THEN ResolveRedirects([pn EXCEPT ![parsing_node_idx].children = <<0, count>>],
                                  bt, rn, k + 1, count)
            ELSE LET target_idx == bt[target_id].parsing_tree_idx IN
                 IF target_idx = INVALID THEN [panic |-> TRUE, pn |-> pn]
                 ELSE ResolveRedirects(
                          [pn EXCEPT ![parsing_node_idx].children = pn[target_idx].children],
                          bt, rn, k + 1, count)

Panicked == [tag |-> "panic", nodes |-> VEmpty, num_roots |-> 0]

IntoParsingTree(bt) ==
    IF bt[ROOT].next.tag # "Children" THEN Panicked
    ELSE LET count == bt[ROOT].next.count
             st0 == [bt |-> bt, pn |-> VEmpty, rn |-> <<>>, panic |-> FALSE]
             st == InsertChildren(st0, bt[ROOT].next.first_child, count)
         IN IF st.panic THEN Panicked
            ELSE LET res == ResolveRedirects(st.pn, st.bt, st.rn, 1, count) IN
                 IF res.panic THEN Panicked
                 ELSE [tag |-> "tree", nodes |-> res.pn, num_roots |-> count]

NotLowered == [tag |-> "none", nodes |-> VEmpty, num_roots |-> 0]

(***************************************************************************)
(* intern.rs: Buffer.  A chunk is a boxed byte slice that never moves; a   *)
(* BufferSlice pointer is the number of the chunk it points into (chunks   *)
(* are numbered in allocation order, the current chunk being number        *)
(* Len(full)) and the offset in it.  Strings are sequences of bytes.       *)
(***************************************************************************)
Alphabet == {97, 98}

Strings == UNION {[1..n -> Alphabet] : n \in 0..MaxStrLen}

Zeroed(size) == [i \in 0..(size - 1) |-> 0]

RECURSIVE PowerOfTwoFrom(_, _)
PowerOfTwoFrom(p, n) == IF p >= n THEN p ELSE PowerOfTwoFrom(2 * p, n)

NextPowerOfTwo(n) == PowerOfTwoFrom(1, n)

Max(a, b) == IF a >= b THEN a ELSE b

NewBuffer == [current |-> Zeroed(FirstChunkSize), length |-> 0, full |-> <<>>]

\* a buffer that makes room by starting the current chunk over in place
\* instead of keeping the old chunk
RoomyInPlace(buf, len) ==
    IF VLen(buf.current) - buf.length < len
    THEN [current |-> Zeroed(NextPowerOfTwo(Max(VLen(buf.current) + 1, len))),
          length |-> 0,
          full |-> buf.full]
    ELSE buf

\* the buffer with room for len bytes: a new current chunk when the rest of
\* the current one is too short, the old chunk kept in full
Roomy(buf, len) ==
    IF VLen(buf.current) - buf.length < len
    THEN [current |-> Zeroed(NextPowerOfTwo(Max(VLen(buf.current) + 1, len))),
          length |-> 0,
          full |-> Append(buf.full, buf.current)]
    ELSE buf

BufferInsert(buf, string) ==
    LET len == Len(string)
        room == Roomy(buf, len)
        at == room.length
        written == [i \in DOMAIN room.current |->
                       IF at <= i /\ i < at + len THEN string[i - at + 1]
                       ELSE room.current[i]]
    IN [buf |-> [room EXCEPT !.current = written, !.length = at + len],
        slice |-> [chunk |-> Len(room.full), off |-> at, len |-> len]]

ChunkBytes(buf, chunk) ==
    IF chunk < Len(buf.full) THEN buf.full[chunk + 1] ELSE buf.current

\* BufferSlice::as_str
AsStr(buf, slice) ==
    [i \in 1..slice.len |-> ChunkBytes(buf, slice.chunk)[slice.off + i - 1]]

(***************************************************************************)
(* intern.rs: StaticInterner.  symbols is the hash map's key set; a lookup *)
(* by hash and string equality finds the key whose view reads as the       *)
(* string.                                                                 *)
(***************************************************************************)
NewInterner == [symbols |-> {}, entries |-> VEmpty, buffer |-> NewBuffer]

Occupied(it, string) ==
    {key \in it.symbols : AsStr(it.buffer, key.view) = string}

\* an id taken from the index of the pushed entry
FreshIdFromIndex(entries) == VLen(entries) - 1

\* the id of a new symbol: entries.len() after the push
FreshId(entries) == VLen(entries)

Intern(it, string) ==
    IF Occupied(it, string) # {}
    THEN [it |-> it, symbol |-> (CHOOSE key \in Occupied(it, string) : TRUE).symbol]
    ELSE LET ins == BufferInsert(it.buffer, string)
             entries == VPush(it.entries, ins.slice)
             symbol == FreshId(entries)
         IN [it |-> [symbols |-> it.symbols \cup {[symbol |-> symbol, view |-> ins.slice]},
                     entries |-> entries,
                     buffer |-> ins.buf],
             symbol |-> symbol]

None == [tag |-> "None", str |-> <<>>]

Some(str) == [tag |-> "Some", str |-> str]

Resolve(it, symbol) ==
    IF symbol <= VLen(it.entries)
    THEN Some(AsStr(it.buffer, it.entries[symbol - 1]))
    ELSE None

InternStart ==
    /\ interner = NewInterner
    /\ calls = <<>>

(***************************************************************************)
(* parsing_tree.rs: group.  A text is a sequence of one-byte characters,   *)
(* the byte at offset p being text[p + 1]; a range is <<start, end>>,      *)
(* end exclusive.  group works on string = text[..end].                    *)
(***************************************************************************)
\* char::is_whitespace, for the characters of the model
Whitespace == {" ", "\n", "\t", "\r"}

NoRange == <<>>

\* the line ranges of string[offset..]: the line endings from pos on, in
\* ascending order, each closing a line and opening the next, the first line
\* opening at start and the end of the string closing the last
LinesFrom(string, end, start, pos) ==
    LET endings == {p \in pos..(end - 1) : string[p + 1] = "\n"}
        Ending(k) == CHOOSE p \in endings : Cardinality({q \in endings : q < p}) = k - 1
    IN [k \in 1..(Cardinality(endings) + 1) |->
           <<IF k = 1 THEN start ELSE Ending(k - 1) + 1,
             IF k = Cardinality(endings) + 1 THEN end ELSE Ending(k)>>]

\* string[line].find(|chr| chr != ' '): the offset in the line of its first
\* character that is no space, INVALID for None
FindNonSpace(string, line, i) ==
    LET others == {j \in i..(line[2] - line[1] - 1) : string[line[1] + j + 1] # " "}
    IN IF others = {} THEN INVALID
       ELSE CHOOSE j \in others : \A other \in others : j <= other

\* a grouping error that is InvalidIndentation whatever the line
IndentationErrorInvalid(kind, span) ==
    [tag |-> "Err", kind |-> "InvalidIndentation", span |-> span, groups |-> <<>>]

IndentationError(kind, span) == [tag |-> "Err", kind |-> kind, span |-> span, groups |-> <<>>]

CommandGroup(range) == [range |-> range, kind |-> "Command"]

CommentGroup(range) == [range |-> range, kind |-> "Comment"]

\* a flush that forgets the open group
FlushedAway(groups, current) == groups

Flushed(groups, current) ==
    IF current = NoRange THEN groups ELSE Append(groups, CommandGroup(current))

\* the loop over the non-blank lines; it ends with the groups pushed so far
\* and the group still open
RECURSIVE GroupLoop(_, _, _, _, _, _)
GroupLoop(string, lines, k, common_indent, current, groups) ==
    IF k > Len(lines)
    THEN [tag |-> "Ok", kind |-> "", span |-> NoRange, groups |-> groups, current |-> current]
    ELSE LET line_range == lines[k]
             indent == FindNonSpace(string, line_range, 0)
         IN IF indent = INVALID
            THEN GroupLoop(string, lines, k + 1, common_indent, current, groups)
            ELSE LET first_char == string[line_range[1] + indent + 1] IN
                 IF first_char = "#" /\ indent <= common_indent
                 THEN GroupLoop(string, lines, k + 1, common_indent, NoRange,
                                Append(Flushed(groups, current), CommentGroup(line_range)))
                 ELSE IF first_char \in Whitespace
                 THEN IndentationError("MixedWhitespace", line_range) @@ [current |-> NoRange]
                 ELSE IF indent < common_indent
                 THEN IndentationError("InvalidIndentation", line_range) @@ [current |-> NoRange]
                 ELSE IF indent > common_indent
                 THEN IF current = NoRange
                      THEN IndentationError("InvalidIndentation", line_range)
                               @@ [current |-> NoRange]
                      ELSE GroupLoop(string, lines, k + 1, common_indent,
                                     <<current[1], line_range[2]>>, groups)
                 ELSE GroupLoop(string, lines, k + 1, common_indent, line_range,
                                Flushed(groups, current))

\* what group returns once the loop is through: the groups, without the one
\* still open
WithoutOpenGroup(looped) ==
    [tag |-> looped.tag, kind |-> looped.kind, span |-> looped.span,
     groups |-> looped.groups]

\* what group returns once the loop is through: the open group is pushed
WithOpenGroup(looped) ==
    [tag |-> looped.tag, kind |-> looped.kind, span |-> looped.span,
     groups |-> IF looped.tag = "Ok" THEN Flushed(looped.groups, looped.current)
                ELSE <<>>]

Group(string, end, offset, common_indent) ==
    WithOpenGroup(GroupLoop(string, LinesFrom(string, end, offset, offset), 1,
                            common_indent, NoRange, <<>>))

(***************************************************************************)
(* parse/reader.rs: Reader.  A reader over src = text[..end] is its        *)
(* position; peek is the character at the position, NoChar at the end.     *)
(***************************************************************************)
NoChar == ""

Peek(string, end, pos) == IF pos < end THEN string[pos + 1] ELSE NoChar

\* Reader::advance
Advance(end, pos) == IF pos < end THEN pos + 1 ELSE pos

\* peek().is_none_or(char::is_whitespace)
AtWordEnd(string, end, pos) == pos >= end \/ string[pos + 1] \in Whitespace

\* read_range_until(char::is_whitespace): where the word at pos ends
ReadUntilWhitespace(string, end, pos) ==
    IF pos >= end THEN pos
    ELSE CHOOSE to \in pos..end :
             /\ AtWordEnd(string, end, to)
             /\ \A p \in pos..(to - 1) : ~AtWordEnd(string, end, p)

\* skip_whitespace
SkipWhitespace(string, end, pos) ==
    IF pos >= end THEN pos
    ELSE CHOOSE to \in pos..end :
             /\ to = end \/ string[to + 1] \notin Whitespace
             /\ \A p \in pos..(to - 1) : string[p + 1] \in Whitespace

\* src.trim_end().len()
TrimEndLen(string, end) ==
    CHOOSE len \in 0..end :
        /\ len = 0 \/ string[len] \notin Whitespace
        /\ \A p \in (len + 1)..end : string[p] \in Whitespace

Slice(string, from, to) == SubSeq(string, from + 1, to)

(***************************************************************************)
(* parse/argument.rs, parse/argument/primitives.rs: the primitive parsers. *)
(* A parser returns the reader position it leaves, the value and the       *)
(* errors it pushed.  An Option payload is [some, v]; a string value holds *)
(* the string handed to intern, whose Symbol the interner decides; a float *)
(* is the decimal <<mantissa, scale>> it reads (mantissa / 10^scale).      *)
(***************************************************************************)
\* an error whose span is measured from the start of the source
ParseErrFromStart(kind, from, to) == [kind |-> kind, span |-> <<0, to>>]

\* a ParseError of the given kind with span from..to
ParseErr(kind, from, to) == [kind |-> kind, span |-> <<from, to>>]

\* a parser that returned: Ok(value) with the errors it pushed and the
\* strings it interned, in call order
Parsed(pos, value, errors) ==
    [tag |-> "Ok", pos |-> pos, value |-> value, errors |-> errors, interned |-> <<>>]

\* a parser that returned Err(error)
Failed(pos, error) ==
    [tag |-> "Err", pos |-> pos, value |-> error, errors |-> <<>>, interned |-> <<>>]

\* a parser that panicked
Unwound ==
    [tag |-> "Panic", pos |-> 0, value |-> [kind |-> "-"], errors |-> <<>>,
     interned |-> <<>>]

Digits == <<"0", "1", "2", "3", "4", "5", "6", "7", "8", "9">>

IsDigit(c) == \E d \in 1..10 : Digits[d] = c

DigitValue(c) == (CHOOSE d \in 1..10 : Digits[d] = c) - 1

IsNumberChar(c) == IsDigit(c) \/ c = "." \/ c = "-"

LowerCase == <<"a", "b", "c", "d", "e", "f", "g", "h", "i", "j", "k", "l", "m",
               "n", "o", "p", "q", "r", "s", "t", "u", "v", "w", "x", "y", "z">>

UpperCase == <<"A", "B", "C", "D", "E", "F", "G", "H", "I", "J", "K", "L", "M",
               "N", "O", "P", "Q", "R", "S", "T", "U", "V", "W", "X", "Y", "Z">>

IsLower(c) == \E i \in 1..Len(LowerCase) : LowerCase[i] = c

IsUpper(c) == \E i \in 1..Len(UpperCase) : UpperCase[i] = c

IsStringChar(c) ==
    IsLower(c) \/ IsUpper(c) \/ IsDigit(c) \/ c \in {"_", "-", ".", "+"}

All(word, P(_)) == \A i \in 1..Len(word) : P(word[i])

I32Max == 2147483647

I32Min == (0 - I32Max) - 1

RECURSIVE NaturalOf(_, _)
NaturalOf(word, n) ==
    IF n = 0 THEN 0 ELSE 10 * NaturalOf(word, n - 1) + DigitValue(word[n])

\* the digit loop of str::parse::<i32>: checked_mul(10), then checked_add
\* of the digit, or checked_sub after a '-'; None on overflow
RECURSIVE CheckedDigits(_, _, _, _)
CheckedDigits(digits, k, acc, neg) ==
    IF k > Len(digits) THEN [some |-> TRUE, v |-> acc]
    ELSE LET d == DigitValue(digits[k]) IN
         IF acc > I32Max \div 10 \/ acc < 0 - (I32Max \div 10)
         THEN [some |-> FALSE, v |-> 0]
         ELSE IF neg
         THEN IF 10 * acc < I32Min + d THEN [some |-> FALSE, v |-> 0]
              ELSE CheckedDigits(digits, k + 1, 10 * acc - d, neg)
         ELSE IF 10 * acc > I32Max - d THEN [some |-> FALSE, v |-> 0]
              ELSE CheckedDigits(digits, k + 1, 10 * acc + d, neg)

\* str::parse::<i32> on a word of number characters: an optional '-', then
\* at least one digit and only digits, the value within i32
ParseI32(word) ==
    LET neg == Len(word) > 0 /\ word[1] = "-"
        digits == IF neg THEN Tail(word) ELSE word
    IN IF Len(digits) = 0 \/ ~All(digits, IsDigit)
       THEN [some |-> FALSE, v |-> 0]
       ELSE CheckedDigits(digits, 1, 0, neg)

RECURSIVE Canonical(_, _)
Canonical(mantissa, scale) ==
    IF mantissa = 0 THEN <<0, 0>>
    ELSE IF scale > 0 /\ mantissa % 10 = 0 THEN Canonical(mantissa \div 10, scale - 1)
    ELSE <<mantissa, scale>>

\* str::parse::<f32> / <f64> on a word of number characters: an optional
\* '-', then digits with at most one '.', at least one digit
ParseDecimal(word) ==
    LET neg == Len(word) > 0 /\ word[1] = "-"
        body == IF neg THEN Tail(word) ELSE word
        dots == {i \in 1..Len(body) : body[i] = "."}
        digits == SelectSeq(body, IsDigit)
    IN IF Cardinality(dots) > 1 \/ Len(digits) = 0
          \/ Len(digits) + Cardinality(dots) # Len(body)
       THEN [some |-> FALSE, v |-> <<0, 0>>]
       ELSE LET n == NaturalOf(digits, Len(digits))
                scale == IF dots = {} THEN 0
                         ELSE Len(body) - (CHOOSE i \in dots : TRUE)
            IN [some |-> TRUE, v |-> Canonical(IF neg THEN 0 - n ELSE n, scale)]

ParseBool(string, end, pos) ==
    LET to == ReadUntilWhitespace(string, end, pos)
        word == Slice(string, pos, to)
    IN IF word = <<"t", "r", "u", "e">>
       THEN Parsed(to, [kind |-> "Boolean", value |-> [some |-> TRUE, v |-> TRUE]], <<>>)
       ELSE IF word = <<"f", "a", "l", "s", "e">>
       THEN Parsed(to, [kind |-> "Boolean", value |-> [some |-> TRUE, v |-> FALSE]], <<>>)
       ELSE Parsed(to, [kind |-> "Boolean", value |-> [some |-> FALSE, v |-> FALSE]],
                   <<ParseErr("ParseBool", pos, to)>>)

\* read_number_string followed by the conversion: the position left, the
\* payload and the errors of parse_integer / parse_float / parse_double
NumberOf(string, end, pos, Convert(_), none, kind) ==
    LET to == ReadUntilWhitespace(string, end, pos)
        word == Slice(string, pos, to)
    IN IF ~All(word, IsNumberChar)
       THEN [pos |-> to, value |-> none, errors |-> <<ParseErr("ParseInteger", pos, to)>>]
       ELSE LET number == Convert(word) IN
            IF number.some
            THEN [pos |-> to, value |-> number, errors |-> <<>>]
            ELSE [pos |-> to, value |-> none, errors |-> <<ParseErr(kind, pos, to)>>]

NoInteger == [some |-> FALSE, v |-> 0]

NoDecimal == [some |-> FALSE, v |-> <<0, 0>>]

Zero == [some |-> TRUE, v |-> <<0, 0>>]

ParseIntegerAt(string, end, pos) ==
    NumberOf(string, end, pos, ParseI32, NoInteger, "ParseInteger")

ParseFloatAt(string, end, pos) ==
    NumberOf(string, end, pos, ParseDecimal, NoDecimal, "ParseFloat")

ParseDoubleAt(string, end, pos) ==
    NumberOf(string, end, pos, ParseDecimal, NoDecimal, "ParseDouble")

ParseInteger(string, end, pos) ==
    LET n == ParseIntegerAt(string, end, pos)
    IN Parsed(n.pos, [kind |-> "Integer", value |-> n.value], n.errors)

ParseFloat(string, end, pos) ==
    LET n == ParseFloatAt(string, end, pos)
    IN Parsed(n.pos, [kind |-> "Float", value |-> n.value], n.errors)

ParseDouble(string, end, pos) ==
    LET n == ParseDoubleAt(string, end, pos)
    IN Parsed(n.pos, [kind |-> "Double", value |-> n.value], n.errors)

\* parse_unquoted_string
ParseUnquotedString(string, end, pos) ==
    LET to == ReadUntilWhitespace(string, end, pos)
        word == Slice(string, pos, to)
    IN IF ~All(word, IsStringChar)
       THEN Parsed(to, [kind |-> "String", value |-> [some |-> FALSE, v |-> <<>>],
                        string_kind |-> "Bare"],
                   <<ParseErr("InvalidStringChars", pos, to)>>)
       ELSE [Parsed(to, [kind |-> "String", value |-> [some |-> TRUE, v |-> word],
                         string_kind |-> "Bare"], <<>>)
                EXCEPT !.interned = <<word>>]

\* parse_greedy_phrase
ParseGreedyPhrase(string, end, pos) ==
    LET phrase == Slice(string, pos, Max(pos, TrimEndLen(string, end)))
    IN [Parsed(end, [kind |-> "String", value |-> [some |-> TRUE, v |-> phrase],
                     string_kind |-> "Bare"], <<>>)
           EXCEPT !.interned = <<phrase>>]

\* the while loop of parse_string, the reader at p inside a string that
\* opened with quote at string_start
RECURSIVE QuotedLoop(_, _, _, _, _, _)
QuotedLoop(string, end, string_start, quote, kind, p) ==
    IF p >= end
    THEN Failed(p, ParseErr("UnterminatedString", string_start, p))
    ELSE IF string[p + 1] = quote
    THEN LET content == Slice(string, string_start + 1, p)
             closed == Advance(end, p)
         IN [Parsed(closed, [kind |-> "String", value |-> [some |-> TRUE, v |-> content],
                             string_kind |-> "Quotable"],
                    IF kind = "SingleWord"
                    THEN <<ParseErr("QuotedSingleWord", string_start, closed)>>
                    ELSE <<>>)
                EXCEPT !.interned = <<content>>]
    ELSE IF string[p + 1] = "\\"
    THEN QuotedLoop(string, end, string_start, quote, kind, Advance(end, Advance(end, p)))
    ELSE QuotedLoop(string, end, string_start, quote, kind, Advance(end, p))

ParseString(string, end, pos, kind) ==
    IF kind = "GreedyPhrase" THEN ParseGreedyPhrase(string, end, pos)
    ELSE IF Peek(string, end, pos) \in {"\"", "'"}
    THEN QuotedLoop(string, end, pos, Peek(string, end, pos), kind, Advance(end, pos))
    ELSE ParseUnquotedString(string, end, pos)

ParseAngle(string, end, pos) ==
    LET relative == Peek(string, end, pos) = "~"
        from == IF relative THEN Advance(end, pos) ELSE pos
    IN IF ~AtWordEnd(string, end, from)
       THEN LET n == ParseFloatAt(string, end, from)
            IN Parsed(n.pos, [kind |-> "Angle", value |-> n.value, relative |-> relative],
                      n.errors)
       ELSE Parsed(from, [kind |-> "Angle", value |-> Zero, relative |-> relative], <<>>)

(***************************************************************************)
(* parse/argument.rs: coordinates.  The loops run over the N coordinates,  *)
(* k the one being read, and carry the reader position, the coordinates    *)
(* and the errors pushed so far.                                           *)
(***************************************************************************)
Coordinates(pos, coords, errors) == [pos |-> pos, coords |-> coords, errors |-> errors]

\* reader.get_next_pos()
NextPos(end, pos) == IF pos < end THEN pos + 1 ELSE pos

RECURSIVE LocalLoop(_, _, _, _, _, _, _, _)
LocalLoop(string, end, start, p, k, N, coords, errors) ==
    IF k > N THEN Coordinates(p, coords, errors)
    ELSE LET at == SkipWhitespace(string, end, p) IN
         IF at >= end
         THEN Coordinates(at, coords,
                          Append(errors, ParseErr("IncompleteLocalCoordinates", start, at)))
         ELSE LET chr == Peek(string, end, at)
                  marked == IF chr = "^" THEN errors
                            ELSE IF chr = "~"
                            THEN Append(errors,
                                        ParseErr("MixedCoordinates", at, NextPos(end, at)))
                            ELSE Append(errors,
                                        ParseErr("ExpectedLocalCoordinate", at,
                                                 NextPos(end, at)))
                  from == IF chr \in {"^", "~"} THEN Advance(end, at) ELSE at
              IN IF ~AtWordEnd(string, end, from)
                 THEN LET n == ParseDoubleAt(string, end, from)
                      IN LocalLoop(string, end, start, n.pos, k + 1, N,
                                   [coords EXCEPT ![k] = n.value], marked \o n.errors)
                 ELSE LocalLoop(string, end, start, from, k + 1, N, coords, marked)

ParseLocalCoordinates(string, end, pos, N) ==
    LET read == LocalLoop(string, end, pos, pos, 1, N, [k \in 1..N |-> Zero], <<>>)
    IN Parsed(read.pos, [kind |-> "Coordinates", frame |-> "Local", coords |-> read.coords],
              read.errors)

\* the number parser parse_block_pos hands over: a double after '~', else
\* an integer widened to a double
BlockPosNumber(string, end, pos, relative) ==
    IF relative THEN ParseDoubleAt(string, end, pos)
    ELSE LET n == ParseIntegerAt(string, end, pos)
         IN [n EXCEPT !.value = IF n.value.some
                                 THEN [some |-> TRUE, v |-> <<n.value.v, 0>>]
                                 ELSE NoDecimal]

NumberParser(integral, string, end, pos, relative) ==
    IF integral THEN BlockPosNumber(string, end, pos, relative)
    ELSE ParseDoubleAt(string, end, pos)

RECURSIVE WorldLoop(_, _, _, _, _, _, _, _, _)
WorldLoop(string, end, start, p, k, N, integral, coords, errors) ==
    IF k > N THEN Coordinates(p, coords, errors)
    ELSE LET at == SkipWhitespace(string, end, p) IN
         IF at >= end
         THEN Coordinates(at, coords,
                          Append(errors, ParseErr("IncompleteLocalCoordinates", start, at)))
         ELSE LET chr == Peek(string, end, at)
                  relative == chr = "~"
                  marked == IF chr = "^"
                            THEN Append(errors,
                                        ParseErr("MixedCoordinates", at, NextPos(end, at)))
                            ELSE errors
                  from == IF chr \in {"~", "^"} THEN Advance(end, at) ELSE at
              IN IF ~AtWordEnd(string, end, from) \/ ~relative
                 THEN LET n == NumberParser(integral, string, end, from, relative)
                      IN WorldLoop(string, end, start, n.pos, k + 1, N, integral,
                                   [coords EXCEPT ![k] = [value |-> n.value,
                                                          relative |-> relative]],
                                   marked \o n.errors)
                 ELSE WorldLoop(string, end, start, from, k + 1, N, integral,
                                [coords EXCEPT ![k].relative = relative], marked)

ParseWorldCoordinates(string, end, pos, N, integral) ==
    LET read == WorldLoop(string, end, pos, pos, 1, N, integral,
                          [k \in 1..N |-> [value |-> Zero, relative |-> FALSE]], <<>>)
    IN Parsed(read.pos, [kind |-> "Coordinates", frame |-> "World", coords |-> read.coords],
              read.errors)

ParseBlockPos(string, end, pos) ==
    IF Peek(string, end, pos) = "^" THEN ParseLocalCoordinates(string, end, pos, 3)
    ELSE ParseWorldCoordinates(string, end, pos, 3, TRUE)

ParseVec3(string, end, pos) ==
    IF Peek(string, end, pos) = "^" THEN ParseLocalCoordinates(string, end, pos, 3)
    ELSE ParseWorldCoordinates(string, end, pos, 3, FALSE)

ParseVec2(string, end, pos) ==
    IF Peek(string, end, pos) = "^" THEN ParseLocalCoordinates(string, end, pos, 2)
    ELSE ParseWorldCoordinates(string, end, pos, 2, FALSE)

ParseColumnPos(string, end, pos) == ParseWorldCoordinates(string, end, pos, 2, FALSE)

(***************************************************************************)
(* arguments/color.rs: ChatColor::from_string; parse/argument.rs:          *)
(* parse_color and the dispatch of Argument::parse.                        *)
(***************************************************************************)
\* char::to_ascii_lowercase
ToAsciiLowercase(c) ==
    IF IsUpper(c) THEN LowerCase[CHOOSE i \in 1..Len(UpperCase) : UpperCase[i] = c] ELSE c

ChatColors ==
    {<<"b", "l", "a", "c", "k">>,
     <<"d", "a", "r", "k", "b", "l", "u", "e">>,
     <<"d", "a", "r", "k", "g", "r", "e", "e", "n">>,
     <<"d", "a", "r", "k", "a", "q", "u", "a">>,
     <<"d", "a", "r", "k", "r", "e", "d">>,
     <<"d", "a", "r", "k", "p", "u", "r", "p", "l", "e">>,
     <<"g", "o", "l", "d">>,
     <<"g", "r", "a", "y">>,
     <<"d", "a", "r", "k", "g", "r", "a", "y">>,
     <<"b", "l", "u", "e">>,
     <<"g", "r", "e", "e", "n">>,
     <<"a", "q", "u", "a">>,
     <<"r", "e", "d">>,
     <<"l", "i", "g", "h", "t", "p", "u", "r", "p", "l", "e">>,
     <<"y", "e", "l", "l", "o", "w">>,
     <<"w", "h", "i", "t", "e">>}

\* the Option<ChatColor>, a colour being known by its lowercase name
FromString(s) ==
    LET normalized == IF ~All(s, IsLower)
                      THEN SelectSeq([i \in 1..Len(s) |-> ToAsciiLowercase(s[i])], IsLower)
                      ELSE s
    IN IF normalized \in ChatColors THEN [some |-> TRUE, v |-> normalized]
       ELSE [some |-> FALSE, v |-> <<>>]

\* a parse_color that pushes no error
ParseColorQuiet(string, end, pos) ==
    LET to == ReadUntilWhitespace(string, end, pos)
    IN Parsed(to, [kind |-> "Color", color |-> FromString(Slice(string, pos, to))], <<>>)

ParseColor(string, end, pos) ==
    LET to == ReadUntilWhitespace(string, end, pos)
        color == FromString(Slice(string, pos, to))
    IN Parsed(to, [kind |-> "Color", color |-> color],
              IF color.some THEN <<>> ELSE <<ParseErr("InvalidColor", pos, to)>>)

\* Argument::parse: the arguments without a parser are todo!()
ParseArgument(arg, string, end, pos) ==
    CASE arg = "Bool" -> ParseBool(string, end, pos)
      [] arg = "Integer" -> ParseInteger(string, end, pos)
      [] arg = "Float" -> ParseFloat(string, end, pos)
      [] arg = "Double" -> ParseDouble(string, end, pos)
      [] arg \in {"SingleWord", "QuotablePhrase", "GreedyPhrase"} ->
             ParseString(string, end, pos, arg)
      [] arg = "Angle" -> ParseAngle(string, end, pos)
      [] arg = "BlockPos" -> ParseBlockPos(string, end, pos)
      [] arg = "Color" -> ParseColor(string, end, pos)
      [] arg = "ColumnPos" -> ParseColumnPos(string, end, pos)
      [] arg = "Vec2" -> ParseVec2(string, end, pos)
      [] arg = "Vec3" -> ParseVec3(string, end, pos)
      [] OTHER -> Unwound

(***************************************************************************)
(* parsing_tree.rs: the parser.  parse_children returns the chain of       *)
(* ParseResults as the arguments in order and the error that ends the      *)
(* chain, if one does; error is an Option, <<>> or <<error>>.  interned    *)
(* lists the strings handed to ctx.interner, in call order.  A panic       *)
(* unwinds the whole parse.  active is the set of the parse_children calls *)
(* under way; what a call does is decided by its reader and its children,  *)
(* so a call that comes to itself again recurses without end: it exhausts  *)
(* the stack, which ends the parse as Overflow.                            *)
(***************************************************************************)
\* get_indent: None, or Some((line_start, indent))
IndentBefore(string, i, indent) ==
    LET stop == CHOOSE p \in 0..i :
                    /\ p = 0 \/ string[p] # " "
                    /\ \A q \in (p + 1)..i : string[q] = " "
    IN IF stop > 0 /\ string[stop] = "\n"
       THEN [some |-> TRUE, line_start |-> stop, indent |-> indent + (i - stop)]
       ELSE [some |-> FALSE, line_start |-> 0, indent |-> 0]

\* a get_indent that finds every position mid-line
GetIndentMidLine(string, pos) == [some |-> FALSE, line_start |-> 0, indent |-> 0]

GetIndent(string, pos) == IndentBefore(string, pos, 0)

NoResult == [tag |-> "None", args |-> <<>>, error |-> <<>>, interned |-> <<>>]

Aborted == [tag |-> "Panic", args |-> <<>>, error |-> <<>>, interned |-> <<>>]

Overflowed == [tag |-> "Overflow", args |-> <<>>, error |-> <<>>, interned |-> <<>>]

\* a call that did not return: it panicked or ran out of stack
Stops(result) == result.tag \in {"Panic", "Overflow"}

\* what the caller of a call that did not return comes to
Stop(result) == IF result.tag = "Overflow" THEN Overflowed ELSE Aborted

ErrResult(error) == [tag |-> "Err", args |-> <<>>, error |-> <<error>>, interned |-> <<>>]

\* a result that drops the arguments that follow
OkResultAlone(argument, next) ==
    [tag |-> "Ok", args |-> <<argument>>, error |-> next.error, interned |-> <<>>]

\* Some(Ok(ParseResult { value: argument, next }))
OkResult(argument, next) ==
    [tag |-> "Ok", args |-> <<argument>> \o next.args, error |-> next.error,
     interned |-> <<>>]

CstArgument(span, lin_node_id, value, errors) ==
    [span |-> span, lin_node_id |-> lin_node_id, value |-> value, errors |-> errors]

\* an order that counts the error that ends the continuation of a candidate
\* among the errors of the candidate
SortClassOfChain(candidate) ==
    IF candidate.tag = "Err" THEN 2
    ELSE IF Len(candidate.args[1].errors) > 0 \/ Len(candidate.error) > 0 THEN 1
    ELSE 0

\* the order of candidates.sort_by: Ok without errors, Ok with errors, Err
SortClass(candidate) ==
    IF candidate.tag = "Err" THEN 2
    ELSE IF Len(candidate.args[1].errors) > 0 THEN 1
    ELSE 0

\* candidates.sort_by(..) is stable, and swap_remove(0) takes the first
SortedFirst(candidates) ==
    LET least == CHOOSE c \in 0..2 :
                     /\ \E i \in 1..Len(candidates) : SortClass(candidates[i]) = c
                     /\ \A i \in 1..Len(candidates) : SortClass(candidates[i]) >= c
    IN candidates[CHOOSE i \in 1..Len(candidates) :
                      /\ SortClass(candidates[i]) = least
                      /\ \A j \in 1..(i - 1) : SortClass(candidates[j]) # least]

\* a command; range is the reader's range it was parsed from, kept for the
\* statement of properties
CstCommand(args, error, range) ==
    [item |-> "Command", args |-> args, error |-> error, range |-> range]

CstComment(span) == [item |-> "Comment", span |-> span]

\* a parse_children call as far as it decides what the call does: the end of
\* the reader's src, its position after the whitespace and the children
CallOf(end, pos, children) == <<end, pos, children>>

\* no call under way: the stack of a parse that starts
NoCalls == {}

RECURSIVE ParseChildren(_, _, _, _, _, _)
RECURSIVE ChildLoop(_, _, _, _, _, _, _, _, _, _)
RECURSIVE ParseCommand(_, _, _, _, _)
RECURSIVE ParseCommands(_, _, _, _, _, _)
RECURSIVE ItemsLoop(_, _, _, _, _, _, _)

\* the reader of a parse_children call once it has skipped the whitespace,
\* and the word read ahead as current_literal when the first child is a
\* Literal: <<pos, current_literal>>
ReaderStart(tree, string, end, from, children) ==
    LET pos == SkipWhitespace(string, end, from)
    IN <<pos,
         IF /\ pos < end
            /\ children[1] < children[2]
            /\ tree.nodes[children[1]].node.kind = "Literal"
         THEN <<pos, ReadUntilWhitespace(string, end, pos)>>
         ELSE NoRange>>

\* parse_children up to the loop over the children; the reader stands at
\* from in src = string[..end].  What is computed once and used after is
\* bound as the one element of a set: here start, the reader and the word
\* read ahead
ParseChildren(tree, string, end, from, children, active) ==
    CHOOSE result \in
        {CASE CallOf(end, start[1], children) \in active -> Overflowed
           [] CallOf(end, start[1], children) \notin active /\ start[1] >= end -> NoResult
           [] /\ CallOf(end, start[1], children) \notin active
              /\ start[1] < end
              /\ children[1] >= children[2] ->
                  ErrResult(ParseErr("TooManyArguments", start[1], TrimEndLen(string, end)))
           [] /\ CallOf(end, start[1], children) \notin active
              /\ start[1] < end
              /\ children[1] < children[2] ->
                  ChildLoop(tree, string, end, start[1], children, children[1], start[2],
                            <<>>, <<>>, active \cup {CallOf(end, start[1], children)})
         : start \in {ReaderStart(tree, string, end, from, children)}} : TRUE

\* a literal child that is recorded as if it had read nothing
LiteralArmEmptySpan(child_idx, current_literal, interned, next) ==
    IF Stops(next) THEN Stop(next)
    ELSE [OkResult(CstArgument(<<current_literal[1], current_literal[1]>>, child_idx,
                               [kind |-> "Literal"], <<>>), next)
             EXCEPT !.interned = interned \o next.interned]

\* a literal child that gives way to the error its continuation ends in
LiteralArmUnlessError(child_idx, current_literal, interned, next) ==
    IF Stops(next) THEN Stop(next)
    ELSE IF Len(next.error) > 0
    THEN [ErrResult(next.error[1]) EXCEPT !.interned = interned \o next.interned]
    ELSE [OkResult(CstArgument(current_literal, child_idx, [kind |-> "Literal"], <<>>), next)
             EXCEPT !.interned = interned \o next.interned]

\* the literal child that matches: the rest of the command follows
LiteralArm(child_idx, current_literal, interned, next) ==
    IF Stops(next) THEN Stop(next)
    ELSE [OkResult(CstArgument(current_literal, child_idx, [kind |-> "Literal"], <<>>), next)
             EXCEPT !.interned = interned \o next.interned]

\* a candidate that records the first entry of the tree as its node
ArgumentArmOfFirst(child_idx, pos, parsed, next) ==
    OkResult(CstArgument(<<pos, parsed.pos>>, 0, parsed.value, parsed.errors), next)

\* the candidate of an argument child whose parser returned Ok
ArgumentArm(child_idx, pos, parsed, next) ==
    OkResult(CstArgument(<<pos, parsed.pos>>, child_idx, parsed.value, parsed.errors), next)

\* a block child after which the chain goes on to an error
BlockArmOpen(child_idx, span, interned, block) ==
    IF Stops(block) THEN Stop(block)
    ELSE IF block.tag = "Err"
    THEN [ErrResult(block.error[1]) EXCEPT !.interned = interned \o block.interned]
    ELSE [OkResult(CstArgument(span, child_idx,
                               [kind |-> "Block", items |-> block.items], <<>>),
                   ErrResult(ParseErr("TooManyArguments", span[2], span[2])))
             EXCEPT !.interned = interned \o block.interned]

\* a block child whose Err(err) is dropped
BlockArmSilent(child_idx, span, interned, block) ==
    IF Stops(block) THEN Stop(block)
    ELSE IF block.tag = "Err" THEN NoResult
    ELSE [OkResult(CstArgument(span, child_idx,
                               [kind |-> "Block", items |-> block.items], <<>>), NoResult)
             EXCEPT !.interned = interned \o block.interned]

\* the block child: Ok(block) ends the chain, Err(err) is the result
BlockArm(child_idx, span, interned, block) ==
    IF Stops(block) THEN Stop(block)
    ELSE IF block.tag = "Err"
    THEN [ErrResult(block.error[1]) EXCEPT !.interned = interned \o block.interned]
    ELSE [OkResult(CstArgument(span, child_idx,
                               [kind |-> "Block", items |-> block.items], <<>>), NoResult)
             EXCEPT !.interned = interned \o block.interned]

\* an InvalidLiteral that names the first child only
InvalidLiteralOfFirst(span, children) ==
    [kind |-> "InvalidLiteral", span |-> span,
     valid_literals |-> <<children[1], children[1] + 1>>]

\* ParseError::InvalidLiteral(InvalidLiteralError { span, valid_literals })
InvalidLiteralError(span, children) ==
    [kind |-> "InvalidLiteral", span |-> span, valid_literals |-> children]

\* the kind of the child the loop stands at, "" once it is through
ChildKind(tree, children, child_idx) ==
    IF child_idx >= children[2] THEN "" ELSE tree.nodes[child_idx].node.kind

\* where the block of a Block child starts: at the reader, or at the start
\* of its line when only the indent lies before it
BlockStart(string, pos) ==
    IF GetIndent(string, pos).some THEN GetIndent(string, pos).line_start ELSE pos

\* a block of the one command of parse_command, or of none
InlineBlock(command) ==
    [command EXCEPT !.tag = IF @ \in {"Panic", "Overflow"} THEN @ ELSE "Ok"]

\* the loop over the children from child_idx on, and what follows it
ChildLoop(tree, string, end, pos, children, child_idx, current_literal, candidates, interned, active) ==
    CASE ChildKind(tree, children, child_idx) = "" ->
             LET all == IF Len(candidates) = 0 /\ current_literal # NoRange
                        THEN <<ErrResult(InvalidLiteralError(current_literal, children))>>
                        ELSE candidates
             IN IF Len(all) = 0 THEN Aborted
                ELSE [SortedFirst(all) EXCEPT !.interned = interned]
      [] /\ ChildKind(tree, children, child_idx) = "Literal"
         /\ current_literal = NoRange -> Aborted
      [] /\ ChildKind(tree, children, child_idx) = "Literal"
         /\ current_literal # NoRange
         /\ tree.nodes[child_idx].node.name
                = Slice(string, current_literal[1], current_literal[2]) ->
             CHOOSE result \in
                 {LiteralArm(child_idx, current_literal, interned, next)
                  : next \in {ParseChildren(tree, string, end, current_literal[2],
                                            tree.nodes[child_idx].children, active)}} : TRUE
      [] /\ ChildKind(tree, children, child_idx) = "Literal"
         /\ current_literal # NoRange
         /\ tree.nodes[child_idx].node.name
                # Slice(string, current_literal[1], current_literal[2]) ->
             ChildLoop(tree, string, end, pos, children, child_idx + 1, current_literal,
                       candidates, interned, active)
      [] ChildKind(tree, children, child_idx) = "Argument" ->
             CHOOSE result \in
                 {CASE parsed.tag = "Panic" -> Aborted
                    [] parsed.tag = "Err" ->
                           ChildLoop(tree, string, end, pos, children, child_idx + 1,
                                     current_literal,
                                     Append(candidates, ErrResult(parsed.value)),
                                     interned \o parsed.interned, active)
                    [] /\ parsed.tag \notin {"Panic", "Err"}
                       /\ ~AtWordEnd(string, end, parsed.pos) -> Aborted
                    [] /\ parsed.tag \notin {"Panic", "Err"}
                       /\ AtWordEnd(string, end, parsed.pos) ->
                           CHOOSE chosen \in
                               {IF Stops(next) THEN Stop(next)
                                ELSE ChildLoop(tree, string, end, pos, children,
                                               child_idx + 1, current_literal,
                                               Append(candidates,
                                                      ArgumentArm(child_idx, pos, parsed,
                                                                  next)),
                                               interned \o parsed.interned \o next.interned,
                                               active)
                                : next \in {ParseChildren(tree, string, end, parsed.pos,
                                                          tree.nodes[child_idx].children,
                                                          active)}} : TRUE
                  : parsed \in {ParseArgument(tree.nodes[child_idx].node.arg, string, end,
                                              pos)}} : TRUE
      [] ChildKind(tree, children, child_idx) = "Block" ->
             CHOOSE result \in
                 {BlockArm(child_idx, <<BlockStart(string, pos), end>>, interned, block)
                  : block \in {IF GetIndent(string, pos).some
                               THEN ParseCommands(tree, string, end,
                                                  GetIndent(string, pos).line_start,
                                                  GetIndent(string, pos).indent, active)
                               ELSE InlineBlock(ParseCommand(tree, string, end, pos,
                                                             active))}} : TRUE

\* what parse_command makes of the result of parse_children: no item for
\* None, else the one command
CommandOf(result, range) ==
    IF Stops(result) THEN [tag |-> result.tag, items |-> <<>>, interned |-> <<>>]
    ELSE IF result.tag = "None"
    THEN [tag |-> "None", items |-> <<>>, interned |-> result.interned]
    ELSE [tag |-> "Some", items |-> <<CstCommand(result.args, result.error, range)>>,
          interned |-> result.interned]

\* parse_command on Reader::with_range(src, pos..end)
ParseCommand(tree, string, end, pos, active) ==
    CHOOSE command \in
        {CommandOf(result, <<pos, end>>)
         : result \in {ParseChildren(tree, string, end, pos, <<0, tree.num_roots>>,
                                     active)}} : TRUE

\* the filter_map over the groups of parse_commands, from group k on
ItemsLoop(tree, string, groups, k, items, interned, active) ==
    CASE k > Len(groups) ->
             [tag |-> "Ok", items |-> items, error |-> <<>>, interned |-> interned]
      [] k <= Len(groups) /\ groups[k].kind = "Comment" ->
             ItemsLoop(tree, string, groups, k + 1,
                       Append(items, CstComment(groups[k].range)), interned, active)
      [] k <= Len(groups) /\ groups[k].kind # "Comment" ->
             CHOOSE result \in
                 {IF Stops(command)
                  THEN [tag |-> command.tag, items |-> <<>>, error |-> <<>>,
                        interned |-> <<>>]
                  ELSE ItemsLoop(tree, string, groups, k + 1, items \o command.items,
                                 interned \o command.interned, active)
                  : command \in {ParseCommand(tree, string, groups[k].range[2],
                                              groups[k].range[1], active)}} : TRUE

ParseCommands(tree, string, end, pos, indent, active) ==
    CHOOSE result \in
        {IF groups.tag = "Err"
         THEN [tag |-> "Err", items |-> <<>>,
               error |-> <<[kind |-> "Indentation", span |-> groups.span,
                            indentation |-> groups.kind]>>,
               interned |-> <<>>]
         ELSE ItemsLoop(tree, string, groups.groups, 1, <<>>, <<>>, active)
         : groups \in {Group(string, end, pos, indent)}} : TRUE

\* ParsingTree::parse
Parse(tree, string) ==
    ParseCommands(tree, string, Len(string), 0, 0, NoCalls)

\* the text state before group and parse are called
NotGrouped == [indent |-> 0, offset |-> 0, result |-> [tag |-> "none", kind |-> "", span |-> NoRange, groups |-> <<>>]]

NotParsed == [tag |-> "none", items |-> <<>>, error |-> <<>>, interned |-> <<>>]

TextIdle ==
    /\ text = <<>>
    /\ grouped = NotGrouped
    /\ cst = NotParsed

(***************************************************************************)
(* source.rs: SourceFile.  line_endings is the Vec of byte offsets, here a *)
(* sequence; byte_to_line and the lines of replace_range count from 0.     *)
(***************************************************************************)
\* the longest text of a SourceFile
MaxSourceText == 6

\* the longest text a replace_range call puts in
MaxNewText == 2

\* the most replace_range calls made on a SourceFile
MaxEdits == 2

\* find_line_endings on string[from..]: the offsets of its '\n', counted
\* from the start of that slice, the slice read from offset idx on
RECURSIVE FindLineEndings(_, _, _)
FindLineEndings(string, from, idx) ==
    IF from + idx >= Len(string) THEN <<>>
    ELSE IF string[from + idx + 1] = "\n"
    THEN <<idx>> \o FindLineEndings(string, from, idx + 1)
    ELSE FindLineEndings(string, from, idx + 1)

\* .map(|off| off + start)
OffsetBy(offsets, start) == [k \in 1..Len(offsets) |-> offsets[k] + start]

NoLine == [some |-> FALSE, line |-> 0]

NoQuery == [idx |-> 0, line |-> NoLine]

NoByte == [some |-> FALSE, byte |-> 0]

NoStart == [line |-> 0, byte |-> NoByte]

\* SourceFile::new; edits counts the replace_range calls made since
NewSourceFile(string) ==
    [text |-> string, line_endings |-> FindLineEndings(string, 0, 0), query |-> NoQuery,
     start |-> NoStart, edits |-> 0]

\* the loop of slice::binary_search: the base it ends with, the slice
\* being endings[base..base + size], indices from 0
RECURSIVE SearchLoop(_, _, _, _)
SearchLoop(endings, idx, base, size) ==
    IF size <= 1 THEN base
    ELSE LET half == size \div 2
             mid == base + half
         IN SearchLoop(endings, idx, IF endings[mid + 1] > idx THEN base ELSE mid,
                       size - half)

\* line_endings.binary_search(&idx): Ok(line) and Err(line) alike give line
BinarySearch(endings, idx) ==
    IF Len(endings) = 0 THEN 0
    ELSE LET base == SearchLoop(endings, idx, 0, Len(endings))
         IN IF endings[base + 1] = idx THEN base
            ELSE IF endings[base + 1] < idx THEN base + 1
            ELSE base

\* a byte_to_line that counts the line ending at idx itself
ByteToLineInclusive(sf, idx) ==
    IF idx <= Len(sf.text)
    THEN [some |-> TRUE, line |-> BinarySearch(sf.line_endings, idx + 1)]
    ELSE NoLine

\* SourceFile::byte_to_line
ByteToLine(sf, idx) ==
    IF idx <= Len(sf.text)
    THEN [some |-> TRUE, line |-> BinarySearch(sf.line_endings, idx)]
    ELSE NoLine

\* SourceFile::line_to_byte; line_endings.get(line - 1) is the entry of
\* index line - 1 counted from 0, the line-th entry of the sequence
LineToByte(sf, line) ==
    IF line = 0 THEN [some |-> TRUE, byte |-> 0]
    ELSE IF line - 1 < Len(sf.line_endings)
    THEN [some |-> TRUE, byte |-> sf.line_endings[line]]
    ELSE NoByte

\* String::replace_range
ReplacedText(string, start, end, new_text) ==
    SubSeq(string, 1, start) \o new_text \o SubSeq(string, end + 1, Len(string))

\* SourceFile::replace_range with a range within the text
ReplaceRange(sf, start, end, new_text) ==
    LET line == ByteToLine(sf, start).line
        replaced == ReplacedText(sf.text, start, end, new_text)
    IN [sf EXCEPT !.text = replaced,
                  !.line_endings = SubSeq(sf.line_endings, 1, line)
                                       \o OffsetBy(FindLineEndings(replaced, start, 0),
                                                   start)]

NoSource ==
    [text |-> <<>>, line_endings |-> <<>>, query |-> NoQuery, start |-> NoStart, edits |-> 0]

(***************************************************************************)
(* smallstring.rs: SmallString, a repr(C) union of InlineString and        *)
(* HeapString.  A value is its bytes in memory, mem[1] the byte at offset  *)
(* 0; strings are sequences of byte values.  The heap is the sequence of   *)
(* allocations made, an allocation known by its address.  The byte order   *)
(* of a usize is that of the target, which the code does not fix.          *)
(***************************************************************************)
MAX_INLINE_LEN == 15

\* size_of::<usize>() on a 64-bit target
UsizeBytes == 8

\* the longest string given to SmallString::from
MaxSmallLen == 144

\* n as k bytes, the least significant first
RECURSIVE LeastFirst(_, _)
LeastFirst(n, k) == IF k = 0 THEN <<>> ELSE <<n % 256>> \o LeastFirst(n \div 256, k - 1)

Reversed(bytes) == [i \in 1..Len(bytes) |-> bytes[Len(bytes) + 1 - i]]

\* the bytes of a usize in memory
UsizeToBytes(n, endian) ==
    IF endian = "little" THEN LeastFirst(n, UsizeBytes)
    ELSE Reversed(LeastFirst(n, UsizeBytes))

RECURSIVE MostFirstValue(_, _, _)
MostFirstValue(bytes, k, acc) ==
    IF k > Len(bytes) THEN acc ELSE MostFirstValue(bytes, k + 1, acc * 256 + bytes[k])

\* the usize read from its bytes in memory
UsizeFromBytes(bytes, endian) ==
    MostFirstValue(IF endian = "little" THEN Reversed(bytes) ELSE bytes, 1, 0)

\* the address of the k-th allocation
AddressOf(k) == 4096 * k

AllocationAt(address) == address \div 4096

\* InlineString { len, bytes } in memory
InlineString(len, bytes) == <<len>> \o bytes

\* HeapString { len, ptr } in memory
HeapString(len, ptr, endian) == UsizeToBytes(len, endian) \o UsizeToBytes(ptr, endian)

\* SmallString::is_inline: self.inline.len > 127
IsInline(mem) == mem[1] > 127

\* self.heap read from memory
HeapOf(mem, endian) ==
    [len |-> UsizeFromBytes(SubSeq(mem, 1, UsizeBytes), endian),
     ptr |-> UsizeFromBytes(SubSeq(mem, UsizeBytes + 1, 2 * UsizeBytes), endian)]

\* From<&str>: the value, and the heap after it; form and alloc record the
\* branch taken and the allocation made
SmallFrom(value, heap, endian) ==
    IF Len(value) <= MAX_INLINE_LEN
    THEN [mem |-> InlineString(128 + Len(value),
                               value \o [i \in 1..(MAX_INLINE_LEN - Len(value)) |-> 0]),
          form |-> "inline", alloc |-> 0, heap |-> heap]
    ELSE [mem |-> HeapString(Len(value), AddressOf(Len(heap) + 1), endian),
          form |-> "heap", alloc |-> Len(heap) + 1,
          heap |-> Append(heap, [bytes |-> value, live |-> TRUE])]

\* Deref: &bytes[..(len & 0x7F)] of the inline form, which panics beyond
\* the array, or the len bytes at ptr
SmallDeref(mem, heap, endian) ==
    IF IsInline(mem)
    THEN IF mem[1] % 128 > MAX_INLINE_LEN THEN [tag |-> "Panic", bytes |-> <<>>]
         ELSE [tag |-> "Ok", bytes |-> SubSeq(mem, 2, 1 + (mem[1] % 128))]
    ELSE LET h == HeapOf(mem, endian)
         IN [tag |-> "Ok", bytes |-> SubSeq(heap[AllocationAt(h.ptr)].bytes, 1, h.len)]

\* Clone: the inline form is copied as it is, the heap form into a new
\* allocation
SmallClone(mem, alloc, heap, endian) ==
    IF IsInline(mem) THEN [mem |-> mem, alloc |-> alloc, heap |-> heap]
    ELSE LET h == HeapOf(mem, endian)
             slice == SubSeq(heap[AllocationAt(h.ptr)].bytes, 1, h.len)
         IN [mem |-> HeapString(Len(slice), AddressOf(Len(heap) + 1), endian),
             alloc |-> Len(heap) + 1,
             heap |-> Append(heap, [bytes |-> slice, live |-> TRUE])]

\* Drop: the heap after the value is dropped
SmallDrop(mem, heap, endian) ==
    IF IsInline(mem) THEN heap
    ELSE [heap EXCEPT ![AllocationAt(HeapOf(mem, endian).ptr)].live = FALSE]

NoStrings == [endian |-> "little", values |-> <<>>, heap |-> <<>>]

FileIdle ==
    /\ source = NoSource
    /\ small = NoStrings

(***************************************************************************)
(* The schema-building state machine: the build tree is edited with        *)
(* insert, clear_node and redirect (calls that panic do not return and     *)
(* leave no state behind), queried with find_node_id and finally consumed  *)
(* by into_parsing_tree.  clears and redirects count the calls made, to    *)
(* bound the exploration.                                                  *)
(***************************************************************************)
NoFind == [path |-> <<>>, result |-> [tag |-> "none", id |-> INVALID]]

PathNames == {<<"a">>, <<"x">>}

Paths == UNION {[1..n -> PathNames] : n \in 0..MaxPathLen}

Ids == 0..(VLen(nodes) - 1)

TreeStart ==
    /\ nodes = DefaultTree
    /\ lowered = NotLowered
    /\ found = NoFind
    /\ clears = 0
    /\ redirects = 0

Editable == lowered.tag = "none" /\ found.result.tag = "none"

Insert ==
    /\ Editable
    /\ VLen(nodes) < MaxNodes
    /\ \E parent \in Ids, node \in NodeChoices :
          /\ ~InsertPanics(nodes, parent)
          /\ nodes' = InsertNode(nodes, parent, node)
    /\ UNCHANGED <<lowered, found, clears, redirects, interner, calls, textVars, fileVars>>

ClearNode ==
    /\ Editable
    /\ clears < MaxClears
    /\ \E id \in Ids :
          /\ ~ClearPanics(nodes, id)
          /\ nodes' = ClearedNode(nodes, id)
    /\ clears' = clears + 1
    /\ UNCHANGED <<lowered, found, redirects, interner, calls, textVars, fileVars>>

Redirect ==
    /\ Editable
    /\ redirects < MaxRedirects
    /\ \E id \in Ids, target \in Ids :
          /\ ~RedirectPanics(nodes, id, target)
          /\ nodes' = RedirectedNode(nodes, id, target)
    /\ redirects' = redirects + 1
    /\ UNCHANGED <<lowered, found, clears, interner, calls, textVars, fileVars>>

Find ==
    /\ Editable
    /\ \E path \in Paths :
          found' = [path |-> path, result |-> FindNodeId(nodes, path)]
    /\ UNCHANGED <<nodes, lowered, clears, redirects, interner, calls, textVars, fileVars>>

Lower ==
    /\ Editable
    /\ lowered' = IntoParsingTree(nodes)
    /\ UNCHANGED <<nodes, found, clears, redirects, interner, calls, textVars, fileVars>>

NextTree == Insert \/ ClearNode \/ Redirect \/ Lower

InitTree == TreeStart /\ InternStart /\ TextIdle /\ FileIdle

SpecTree == InitTree /\ [][NextTree]_vars

NextFind == Insert \/ ClearNode \/ Redirect \/ Find

SpecFind == InitTree /\ [][NextFind]_vars


(***************************************************************************)
(* The interner state machine: intern is called with strings over a small  *)
(* alphabet.                                                               *)
(***************************************************************************)
InternCall ==
    /\ Len(calls) < MaxInterns
    /\ \E string \in Strings :
          LET res == Intern(interner, string) IN
          /\ interner' = res.it
          /\ calls' = Append(calls, <<string, res.symbol>>)
    /\ UNCHANGED <<treeVars, textVars, fileVars>>

NextIntern == InternCall

InitIntern == TreeStart /\ InternStart /\ TextIdle /\ FileIdle

SpecIntern == InitIntern /\ [][NextIntern]_vars

(***************************************************************************)
(* Grouping as a state machine: a text over a small alphabet is drawn and  *)
(* group is applied to it with a common indent, from the offsets the       *)
(* parser calls it with: 0 in parse and the start of a line in a block.    *)
(***************************************************************************)
GroupAlphabet == {"a", "#", " ", "\n", "\t"}

TextsOver(alphabet, maxLen) == UNION {[1..n -> alphabet] : n \in 0..maxLen}

InitGroup ==
    /\ TreeStart
    /\ InternStart
    /\ text \in TextsOver(GroupAlphabet, MaxGroupText)
    /\ grouped = NotGrouped
    /\ cst = NotParsed
    /\ FileIdle

\* the offsets of the line starts of a string
LineStarts(string) == {0} \cup {p \in 1..Len(string) : string[p] = "\n"}

GroupCall ==
    /\ grouped.result.tag = "none"
    /\ \E c \in 0..MaxIndent, offset \in LineStarts(text) :
          grouped' = [indent |-> c, offset |-> offset,
                      result |-> Group(text, Len(text), offset, c)]
    /\ UNCHANGED <<treeVars, internVars, text, cst, fileVars>>

NextGroup == GroupCall

SpecGroup == InitGroup /\ [][NextGroup]_vars

(***************************************************************************)
(* Parsing as a state machine: a schema is built with insert and redirect  *)
(* and lowered, a text over the characters the schema reads is drawn, and  *)
(* ParsingTree::parse is applied to it.  The strings the parse interns go  *)
(* to the interner of the ParseContext.                                    *)
(***************************************************************************)
InsertStep(parent, node) == [op |-> "insert", id |-> parent, target |-> ROOT, node |-> node]

RedirectStep(id, target) ==
    [op |-> "redirect", id |-> id, target |-> target, node |-> BlockNode]

RECURSIVE Built(_, _, _)
Built(bt, steps, k) ==
    IF k > Len(steps) THEN bt
    ELSE Built(IF steps[k].op = "insert"
               THEN InsertNode(bt, steps[k].id, steps[k].node)
               ELSE RedirectedNode(bt, steps[k].id, steps[k].target),
               steps, k + 1)

\* the schemas, each with the characters its texts are drawn from, by how
\* much they are shorter than MaxParseText, and what they all start with
Scenarios ==
    << \* a literal and the block under it
       [steps |-> <<InsertStep(ROOT, Literal(<<"a">>)), InsertStep(1, BlockNode)>>,
        alphabet |-> {"a", " ", "\n"}, shorter |-> 0, prefix |-> <<>>],
       \* the same, the texts starting with a line and the indent of the next
       [steps |-> <<InsertStep(ROOT, Literal(<<"a">>)), InsertStep(1, BlockNode)>>,
        alphabet |-> {"a", " ", "\n"}, shorter |-> 1, prefix |-> <<"a", "\n", " ">>],
       \* the same with comments
       [steps |-> <<InsertStep(ROOT, Literal(<<"a">>)), InsertStep(1, BlockNode)>>,
        alphabet |-> {"a", "#", " ", "\n"}, shorter |-> 2, prefix |-> <<>>],
       \* a literal, two integers and nothing after them
       [steps |-> <<InsertStep(ROOT, Literal(<<"a">>)),
                    InsertStep(1, ArgumentNode(<<"n">>, "Integer")),
                    InsertStep(2, ArgumentNode(<<"m">>, "Integer"))>>,
        alphabet |-> {"a", "1", "-", " "}, shorter |-> 2, prefix |-> <<>>],
       \* a literal and an integer that leads back to the root
       [steps |-> <<InsertStep(ROOT, Literal(<<"a">>)),
                    InsertStep(1, ArgumentNode(<<"n">>, "Integer")),
                    RedirectStep(2, ROOT)>>,
        alphabet |-> {"a", "1", " "}, shorter |-> 1, prefix |-> <<>>],
       \* a literal, an integer and a word to choose from
       [steps |-> <<InsertStep(ROOT, ArgumentNode(<<"w">>, "SingleWord")),
                    InsertStep(ROOT, ArgumentNode(<<"n">>, "Integer")),
                    InsertStep(ROOT, Literal(<<"a">>)),
                    InsertStep(2, Literal(<<"a">>))>>,
        alphabet |-> {"a", "1", "\"", " "}, shorter |-> 2, prefix |-> <<>>],
       \* the coordinates to choose from
       [steps |-> <<InsertStep(ROOT, ArgumentNode(<<"c">>, "ColumnPos")),
                    InsertStep(ROOT, ArgumentNode(<<"p">>, "BlockPos")),
                    InsertStep(ROOT, ArgumentNode(<<"v">>, "Vec3")),
                    InsertStep(ROOT, ArgumentNode(<<"u">>, "Vec2"))>>,
        alphabet |-> {"~", "^", "1", " "}, shorter |-> 2, prefix |-> <<>>],
       \* the three kinds of string in a row
       [steps |-> <<InsertStep(ROOT, ArgumentNode(<<"q">>, "QuotablePhrase")),
                    InsertStep(1, ArgumentNode(<<"w">>, "SingleWord")),
                    InsertStep(2, ArgumentNode(<<"g">>, "GreedyPhrase"))>>,
        alphabet |-> {"a", "\"", "\\", " "}, shorter |-> 2, prefix |-> <<>>],
       \* an angle, a float and a double in a row
       [steps |-> <<InsertStep(ROOT, ArgumentNode(<<"a">>, "Angle")),
                    InsertStep(1, ArgumentNode(<<"f">>, "Float")),
                    InsertStep(2, ArgumentNode(<<"d">>, "Double"))>>,
        alphabet |-> {"~", "1", ".", "-", " "}, shorter |-> 3, prefix |-> <<>>],
       \* a boolean
       [steps |-> <<InsertStep(ROOT, ArgumentNode(<<"b">>, "Bool"))>>,
        alphabet |-> {"t", "r", "u", "e", " "}, shorter |-> 3, prefix |-> <<>>],
       \* a colour
       [steps |-> <<InsertStep(ROOT, ArgumentNode(<<"c">>, "Color"))>>,
        alphabet |-> {"r", "e", "D", "_", " "}, shorter |-> 3, prefix |-> <<>>],
       \* a block among the root nodes
       [steps |-> <<InsertStep(ROOT, BlockNode), InsertStep(ROOT, Literal(<<"a">>))>>,
        alphabet |-> {"a", "#", " ", "\n"}, shorter |-> 3, prefix |-> <<>>],
       \* an argument that has no parser
       [steps |-> <<InsertStep(ROOT, ArgumentNode(<<"c">>, "Component"))>>,
        alphabet |-> {"a", " "}, shorter |-> 3, prefix |-> <<>>] >>

\* the schemas and inputs of the documented scenarios: say <message:
\* GreedyPhrase>, tp <x: BlockPos> and execute run {block}
Say == <<"s", "a", "y">>

Tp == <<"t", "p">>

Execute == <<"e", "x", "e", "c", "u", "t", "e">>

Run == <<"r", "u", "n">>

SayTpSchema ==
    <<InsertStep(ROOT, Literal(Say)),
      InsertStep(1, ArgumentNode(<<"m", "e", "s", "s", "a", "g", "e">>, "GreedyPhrase")),
      InsertStep(ROOT, Literal(Tp)),
      InsertStep(3, ArgumentNode(<<"x">>, "BlockPos"))>>

ExecuteRunSchema ==
    SayTpSchema \o <<InsertStep(ROOT, Literal(Execute)),
                     InsertStep(5, Literal(Run)),
                     InsertStep(6, BlockNode)>>

\* execute run, then the indented lines say a and say b
ExecuteRunText ==
    <<"e", "x", "e", "c", "u", "t", "e", " ", "r", "u", "n", "\n", " ",
      " ", "s", "a", "y", " ", "a", "\n", " ", " ", "s", "a", "y",
      " ", "b", "\n">>

\* say "open
UnterminatedText ==
    <<"s", "a", "y", " ", "\"", "o", "p", "e", "n", "\n">>

FrobnicateText ==
    <<"f", "r", "o", "b", "n", "i", "c", "a", "t", "e", "\n">>

\* tp ~ ^ 3
TpMixedText == <<"t", "p", " ", "~", " ", "^", " ", "3", "\n">>

Examples ==
    <<[steps |-> ExecuteRunSchema,
       texts |-> {ExecuteRunText, SubSeq(ExecuteRunText, 1, Len(ExecuteRunText) - 1),
                  UnterminatedText}],
      [steps |-> SayTpSchema, texts |-> {FrobnicateText, UnterminatedText, TpMixedText}]>>

RedirectsIn(steps) == Cardinality({k \in 1..Len(steps) : steps[k].op = "redirect"})

InitParse ==
    /\ \/ \E sc \in 1..Len(Scenarios) :
             /\ nodes = Built(DefaultTree, Scenarios[sc].steps, 1)
             /\ lowered = IntoParsingTree(nodes)
             /\ redirects = RedirectsIn(Scenarios[sc].steps)
             /\ \E rest \in TextsOver(Scenarios[sc].alphabet,
                                       MaxParseText - Scenarios[sc].shorter) :
                   text = Scenarios[sc].prefix \o rest
       \/ \E ex \in 1..Len(Examples) :
             /\ nodes = Built(DefaultTree, Examples[ex].steps, 1)
             /\ lowered = IntoParsingTree(nodes)
             /\ redirects = RedirectsIn(Examples[ex].steps)
             /\ text \in Examples[ex].texts
    /\ found = NoFind
    /\ clears = 0
    /\ InternStart
    /\ grouped = NotGrouped
    /\ cst = NotParsed
    /\ FileIdle

RECURSIVE InternAll(_, _, _, _)
InternAll(it, log, strings, k) ==
    IF k > Len(strings) THEN [it |-> it, calls |-> log]
    ELSE Once(Intern(it, strings[k]), LAMBDA res :
              Once(Append(log, <<strings[k], res.symbol>>), LAMBDA logged :
                   InternAll(res.it, logged, strings, k + 1)))

\* ParseContext::parse; a parse that panics returns nothing and is recorded
\* as Panic, one that recurses until the stack is exhausted as Overflow
ParseCall ==
    /\ cst.tag = "none"
    /\ lowered.tag = "tree"
    /\ \E result \in {Parse(lowered, text)} :
          \E after \in {InternAll(interner, calls, result.interned, 1)} :
              /\ cst' = result
              /\ interner' = after.it
              /\ calls' = after.calls
    /\ UNCHANGED <<treeVars, text, grouped, fileVars>>

NextParse == ParseCall

SpecParse == InitParse /\ [][NextParse]_vars

(***************************************************************************)
(* The SourceFile state machine: a file is made of a text, its ranges are  *)
(* replaced, and byte offsets and lines are looked up.  replace_range      *)
(* panics on a range that is not within the text; those calls leave        *)
(* nothing behind.                                                         *)
(***************************************************************************)
SourceAlphabet == {"a", "\n"}

InitSource ==
    /\ TreeStart
    /\ InternStart
    /\ TextIdle
    /\ small = NoStrings
    /\ \E string \in TextsOver(SourceAlphabet, MaxSourceText) :
          source = NewSourceFile(string)

ReplaceRangeCall ==
    /\ source.edits < MaxEdits
    /\ \E start \in 0..Len(source.text) :
          \E end \in start..Len(source.text) :
              \E new_text \in TextsOver(SourceAlphabet, MaxNewText) :
                  /\ Len(source.text) - (end - start) + Len(new_text) <= MaxSourceText
                  /\ source' = [ReplaceRange(source, start, end, new_text)
                                   EXCEPT !.query = NoQuery, !.start = NoStart,
                                          !.edits = @ + 1]
    /\ UNCHANGED <<treeVars, internVars, textVars, small>>

ByteToLineCall ==
    /\ \E idx \in 0..(Len(source.text) + 1) :
          source' = [source EXCEPT !.query = [idx |-> idx, line |-> ByteToLine(source, idx)]]
    /\ UNCHANGED <<treeVars, internVars, textVars, small>>

LineToByteCall ==
    /\ \E line \in 0..(Len(source.text) + 1) :
          source' = [source EXCEPT !.start = [line |-> line, byte |-> LineToByte(source, line)]]
    /\ UNCHANGED <<treeVars, internVars, textVars, small>>

NextSource == ReplaceRangeCall \/ ByteToLineCall \/ LineToByteCall

SpecSource == InitSource /\ [][NextSource]_vars

(***************************************************************************)
(* The SmallString state machine: a value is made from a string, cloned    *)
(* once, dereferenced and dropped.  of is the string the value was made    *)
(* from, read the result of its last deref.                                *)
(***************************************************************************)
\* the strings of length n given to from: letters a, the last one a or b
SmallStrings ==
    {[i \in 1..n |-> IF i = n THEN last ELSE 97] : n \in 0..MaxSmallLen, last \in {97, 98}}

NotRead == [tag |-> "none", bytes |-> <<>>]

InitSmall ==
    /\ TreeStart
    /\ InternStart
    /\ TextIdle
    /\ source = NoSource
    /\ \E endian \in {"little", "big"} :
          small = [endian |-> endian, values |-> <<>>, heap |-> <<>>]

FromCall ==
    /\ Len(small.values) = 0
    /\ \E value \in SmallStrings :
          \E made \in {SmallFrom(value, small.heap, small.endian)} :
              small' = [small EXCEPT
                           !.values = <<[mem |-> made.mem, form |-> made.form,
                                         alloc |-> made.alloc, of |-> value,
                                         alive |-> TRUE, read |-> NotRead]>>,
                           !.heap = made.heap]
    /\ UNCHANGED <<treeVars, internVars, textVars, source>>

CloneCall ==
    /\ Len(small.values) = 1
    /\ small.values[1].alive
    /\ \E made \in {SmallClone(small.values[1].mem, small.values[1].alloc, small.heap,
                               small.endian)} :
          small' = [small EXCEPT
                       !.values = Append(@, [mem |-> made.mem,
                                             form |-> small.values[1].form,
                                             alloc |-> made.alloc,
                                             of |-> small.values[1].of,
                                             alive |-> TRUE, read |-> NotRead]),
                       !.heap = made.heap]
    /\ UNCHANGED <<treeVars, internVars, textVars, source>>

DerefCall ==
    /\ \E i \in 1..Len(small.values) :
          /\ small.values[i].alive
          /\ small.values[i].read = NotRead
          /\ small' = [small EXCEPT
                          !.values[i].read = SmallDeref(small.values[i].mem, small.heap,
                                                        small.endian)]
    /\ UNCHANGED <<treeVars, internVars, textVars, source>>

DropCall ==
    /\ \E i \in 1..Len(small.values) :
          /\ small.values[i].alive
          /\ small' = [small EXCEPT
                          !.values[i].alive = FALSE,
                          !.heap = SmallDrop(small.values[i].mem, small.heap, small.endian)]
    /\ UNCHANGED <<treeVars, internVars, textVars, source>>

NextSmall == FromCall \/ CloneCall \/ DerefCall \/ DropCall

SpecSmall == InitSmall /\ [][NextSmall]_vars

(***************************************************************************)
(* Properties of grouping.                                                 *)
(***************************************************************************)
SubText(string, range) == SubSeq(string, range[1] + 1, range[2])

\* the lines of a string: the maximal ranges that hold no newline
LineRangesOf(string) ==
    {rg \in (0..Len(string)) \X (0..Len(string)) :
        /\ rg[1] <= rg[2]
        /\ rg[1] = 0 \/ string[rg[1]] = "\n"
        /\ rg[2] = Len(string) \/ string[rg[2] + 1] = "\n"
        /\ \A p \in (rg[1] + 1)..rg[2] : string[p] # "\n"}

IsBlank(string) == \A i \in 1..Len(string) : string[i] = " "

RECURSIVE SortedRanges(_)
SortedRanges(S) ==
    IF S = {} THEN <<>>
    ELSE LET lo == CHOOSE rg \in S : \A o \in S : rg[1] <= o[1]
         IN <<lo>> \o SortedRanges(S \ {lo})

\* the lines of a string that are not blank, in order
NonBlankLines(string) ==
    LET ranges == SortedRanges({rg \in LineRangesOf(string) : ~IsBlank(SubText(string, rg))})
    IN [i \in 1..Len(ranges) |-> SubText(string, ranges[i])]

RECURSIVE JoinedWithNewlines(_, _, _)
JoinedWithNewlines(string, groups, k) ==
    IF k > Len(groups) THEN <<>>
    ELSE SubText(string, groups[k].range)
            \o (IF k < Len(groups) THEN <<"\n">> ELSE <<>>)
            \o JoinedWithNewlines(string, groups, k + 1)

\* C7: when group(text, 0, 0) succeeds its spans are ascending and pairwise
\* disjoint, their texts joined with newlines are the input once the blank
\* lines are deleted from both, and every non-blank line lies in exactly one
\* span.
C7_GroupCoversText ==
    (grouped.result.tag = "Ok" /\ grouped.indent = 0 /\ grouped.offset = 0) =>
        LET groups == grouped.result.groups IN
        /\ \A i \in 1..Len(groups) : groups[i].range[1] < groups[i].range[2]
        /\ \A i \in 1..(Len(groups) - 1) : groups[i].range[2] <= groups[i + 1].range[1]
        /\ NonBlankLines(JoinedWithNewlines(text, groups, 1)) = NonBlankLines(text)
        /\ \A line \in LineRangesOf(text) :
              ~IsBlank(SubText(text, line)) =>
                  Cardinality({i \in 1..Len(groups) :
                                  /\ groups[i].range[1] <= line[1]
                                  /\ line[2] <= groups[i].range[2]}) = 1

\* witness of C7: a successful grouping at indent 0 with a comment and a
\* command group that runs over a blank line to a deeper line
C7_Witness ==
    /\ grouped.result.tag = "Ok"
    /\ grouped.indent = 0
    /\ grouped.offset = 0
    /\ \E i \in 1..Len(grouped.result.groups) :
          grouped.result.groups[i].kind = "Comment"
    /\ \E i \in 1..Len(grouped.result.groups) :
          /\ grouped.result.groups[i].kind = "Command"
          /\ \E line \in LineRangesOf(text) :
                /\ IsBlank(SubText(text, line))
                /\ grouped.result.groups[i].range[1] < line[1]
                /\ line[2] < grouped.result.groups[i].range[2]

(***************************************************************************)
(* Properties of the interner.                                             *)
(***************************************************************************)
CallIdx == 1..Len(calls)

InternedStrings == {calls[i][1] : i \in CallIdx}

\* the call that interned the string of call i first
FirstCall(i) == CHOOSE f \in CallIdx :
                    /\ calls[f][1] = calls[i][1]
                    /\ \A g \in CallIdx : calls[g][1] = calls[i][1] => f <= g

\* C8: intern returns the same Symbol for byte-equal strings every time, and
\* resolve of a returned symbol gives back the interned string at every
\* later point, whatever was interned in between (chunk roll-overs included).
C8_InternStable ==
    /\ \A i, j \in CallIdx :
          (calls[i][1] = calls[j][1]) = (calls[i][2] = calls[j][2])
    /\ \A i \in CallIdx : Resolve(interner, calls[i][2]) = Some(calls[i][1])

\* witness of C8: a string was interned, another one after it made the
\* buffer roll over to a new chunk, and the first string was interned again
C8_Witness ==
    /\ Len(calls) >= 3
    /\ calls[1][1] # calls[2][1]
    /\ calls[3][1] = calls[1][1]
    /\ Len(calls[1][1]) > 0
    /\ interner.entries[0].chunk = 0
    /\ interner.entries[1].chunk > 0

\* C9: after k distinct strings were interned the ids issued are exactly
\* 1..k in order of first interning, and resolve returns None for every id
\* greater than k.
C9_DenseIds ==
    LET k == Cardinality(InternedStrings) IN
    /\ {calls[i][2] : i \in CallIdx} = 1..k
    /\ \A i \in CallIdx :
          calls[i][2] = Cardinality({calls[j][1] : j \in 1..FirstCall(i)})
    /\ VLen(interner.entries) = k
    /\ \A id \in (k + 1)..(k + 3) : Resolve(interner, id) = None

\* witness of C9: two distinct strings were interned and one of them again
C9_Witness ==
    /\ Len(calls) = 3
    /\ Cardinality(InternedStrings) = 2
    /\ calls[3][1] = calls[1][1]

(***************************************************************************)
(* Properties of the lowered tree.                                         *)
(***************************************************************************)
Entries == DOMAIN lowered.nodes

EntryRange(i) == lowered.nodes[i].children

\* the children ranges that occur in the lowered tree
OccurringRanges ==
    {<<0, lowered.num_roots>>} \cup {EntryRange(i) : i \in Entries}

\* the build children of ROOT in list order start with a non-literal
RootListStartsNonLiteral ==
    /\ nodes[ROOT].next.tag = "Children"
    /\ nodes[ROOT].next.count > 0
    /\ nodes[nodes[ROOT].next.first_child].node.kind # "Literal"

\* C1: after into_parsing_tree the entry of every redirecting build node r
\* has the children range of the entry of its target t (0..num_roots when t
\* is ROOT).
C1_RedirectAliasesTarget ==
    lowered.tag = "tree" =>
        \A i \in Entries :
            LET r == lowered.nodes[i].origin IN
            IsRedirect(nodes, r) =>
                LET t == nodes[r].next.target IN
                IF t = ROOT
                THEN EntryRange(i) = <<0, lowered.num_roots>>
                ELSE \E j \in Entries :
                        /\ lowered.nodes[j].origin = t
                        /\ EntryRange(i) = EntryRange(j)

\* C2: in every reachable build tree no redirecting node has a redirect
\* target that is itself a redirecting node.
C2_NoRedirectToRedirect ==
    \A id \in Ids :
        IsRedirect(nodes, id) => ~IsRedirect(nodes, nodes[id].next.target)

\* C3: every children range [a,b) of a lowered tree lies inside the vector
\* and splits at some m into Literal entries [a,m) and non-Literal entries
\* [m,b); so a range that holds a Literal starts with a Literal, which is
\* what the parser's expect("parsing tree is not correctly sorted") needs.
C3_LiteralsFirst ==
    lowered.tag = "tree" =>
        \A rg \in OccurringRanges :
            LET a == rg[1]
                b == rg[2]
            IN /\ 0 <= a /\ a <= b /\ b <= VLen(lowered.nodes)
               /\ \E m \in a..b :
                    /\ \A k \in a..(m - 1) : IsLiteralEntry(lowered.nodes[k])
                    /\ \A k \in m..(b - 1) : ~IsLiteralEntry(lowered.nodes[k])
               /\ (\E k \in a..(b - 1) : IsLiteralEntry(lowered.nodes[k]))
                     => IsLiteralEntry(lowered.nodes[a])

\* witness of C3: a tree was lowered whose root list starts with a
\* non-literal and also holds a literal, so the partition had to swap
C3_Witness ==
    /\ lowered.tag = "tree"
    /\ RootListStartsNonLiteral
    /\ \E k \in 0..(lowered.num_roots - 1) : IsLiteralEntry(lowered.nodes[k])
    /\ \E k \in 0..(lowered.num_roots - 1) : ~IsLiteralEntry(lowered.nodes[k])

\* C4: the entry at index i of a non-redirecting build node has a children
\* range [a,b) with a >= i+1 and b <= nodes.len().
C4_ChildrenAfterSelf ==
    lowered.tag = "tree" =>
        \A i \in Entries :
            ~IsRedirect(nodes, lowered.nodes[i].origin) =>
                /\ EntryRange(i)[1] >= i + 1
                /\ EntryRange(i)[2] <= VLen(lowered.nodes)


(***************************************************************************)
(* Reference reading of a path, used to state the find_node_id claims: the *)
(* children of a node are the members of its child list, those of a        *)
(* redirecting node are the children of its target, and a step moves to    *)
(* the child with the wanted name (the latest inserted one when several    *)
(* siblings carry the name).                                               *)
(***************************************************************************)
RECURSIVE ListMembers(_, _)
ListMembers(bt, child_id) ==
    IF child_id = INVALID THEN {}
    ELSE {child_id} \cup ListMembers(bt, bt[child_id].next_sibling)

RECURSIVE EffectiveChildren(_, _, _)
EffectiveChildren(bt, id, seen) ==
    IF id \in seen THEN {}
    ELSE IF bt[id].next.tag = "Redirect"
    THEN EffectiveChildren(bt, bt[id].next.target, seen \cup {id})
    ELSE IF bt[id].next.count = 0 THEN {}
    ELSE ListMembers(bt, bt[id].next.first_child)

Latest(S) == CHOOSE m \in S : \A o \in S : o <= m

RECURSIVE Walk(_, _, _, _)
Walk(bt, id, path, k) ==
    IF k > Len(path) THEN [tag |-> "Some", id |-> id]
    ELSE LET named == {c \in EffectiveChildren(bt, id, {}) : bt[c].node.name = path[k]} IN
         IF named = {} THEN [tag |-> "None", id |-> INVALID]
         ELSE Walk(bt, Latest(named), path, k + 1)

\* C10: find_node_id(path) returns the id reached from ROOT by moving, for
\* each component in order, to the child with that name among the current
\* node's children (a redirecting node's children being its target's), None
\* exactly when some component has no such child, Some(ROOT) for the empty
\* path.
C10_FindFollowsPath ==
    found.result.tag # "none" => found.result = Walk(nodes, ROOT, found.path, 1)

\* the same statement for the calls that return
C10_ReturnedFindFollowsPath ==
    found.result.tag \in {"Some", "None"} =>
        found.result = Walk(nodes, ROOT, found.path, 1)

(***************************************************************************)
(* Properties of the parser.  The CST the parser returns is the Block of   *)
(* an Ok; its commands are those of its items and of the blocks among      *)
(* their arguments.                                                        *)
(***************************************************************************)
RECURSIVE CommandsOf(_), NestedIn(_)
CommandsOf(items) ==
    IF Len(items) = 0 THEN <<>>
    ELSE IF Head(items).item = "Command"
    THEN <<Head(items)>> \o NestedIn(Head(items).args) \o CommandsOf(Tail(items))
    ELSE CommandsOf(Tail(items))

NestedIn(args) ==
    IF Len(args) = 0 THEN <<>>
    ELSE IF Head(args).value.kind = "Block"
    THEN CommandsOf(Head(args).value.items) \o NestedIn(Tail(args))
    ELSE NestedIn(Tail(args))

Returned == cst.tag = "Ok"

Commands == IF Returned THEN CommandsOf(cst.items) ELSE <<>>

Within(inner, outer) ==
    outer[1] <= inner[1] /\ inner[1] <= inner[2] /\ inner[2] <= outer[2]

ErrorFree(command) ==
    /\ Len(command.error) = 0
    /\ \A i \in 1..Len(command.args) : Len(command.args[i].errors) = 0

Covered(command, p) ==
    \E i \in 1..Len(command.args) :
        command.args[i].span[1] <= p /\ p < command.args[i].span[2]

\* C5: in every CST the parser returns, each error of an argument has its
\* span within the argument's span, and the error of a command starts at or
\* after the end of the command's last argument.
C5_ErrorsAreLocal ==
    \A c \in 1..Len(Commands) :
        LET command == Commands[c] IN
        /\ \A i \in 1..Len(command.args) :
              \A e \in 1..Len(command.args[i].errors) :
                  Within(command.args[i].errors[e].span, command.args[i].span)
        /\ (Len(command.error) > 0 /\ Len(command.args) > 0)
              => command.error[1].span[1] >= command.args[Len(command.args)].span[2]

\* witness of C5: a returned command whose last argument carries two errors,
\* one of them at the very end of its span, and that ends in an error itself
C5_Witness ==
    \E c \in 1..Len(Commands) :
        LET command == Commands[c]
            n == Len(command.args)
        IN /\ n > 0
           /\ Len(command.error) > 0
           /\ Len(command.args[n].errors) >= 2
           /\ command.args[n].errors[2].span[1] = command.args[n].span[2]
           /\ command.error[1].span[1] > command.args[n].span[2]

\* C6: a command parsed with no error at all has its argument spans in
\* strictly ascending order without overlap and inside its range, and every
\* byte of its range outside all argument spans is whitespace, so that the
\* spans read in order give back the command text up to whitespace around it.
C6_SpansCoverCommand ==
    \A c \in 1..Len(Commands) :
        LET command == Commands[c] IN
        ErrorFree(command) =>
            /\ \A i \in 1..Len(command.args) :
                  /\ command.args[i].span[1] < command.args[i].span[2]
                  /\ Within(command.args[i].span, command.range)
            /\ \A i \in 1..(Len(command.args) - 1) :
                  command.args[i].span[2] <= command.args[i + 1].span[1]
            /\ \A p \in command.range[1]..(command.range[2] - 1) :
                  ~Covered(command, p) => text[p + 1] \in Whitespace

\* witness of C6: an error-free command of three arguments with whitespace
\* before, between and after them, the last one a block that holds an
\* error-free command of its own
C6_Witness ==
    \E c \in 1..Len(Commands) :
        LET command == Commands[c]
            n == Len(command.args)
        IN /\ ErrorFree(command)
           /\ n >= 2
           /\ command.range[1] < command.args[1].span[1]
           /\ command.args[1].span[2] + 1 < command.args[2].span[1]
           /\ \E d \in 1..Len(Commands) :
                 /\ d # c
                 /\ ErrorFree(Commands[d])
                 /\ Len(Commands[d].args) > 0
                 /\ Within(Commands[d].range, command.args[n].span)

\* the items of a returned block are, one for one, the groups of its text
ItemsFollow(items, groups) ==
    /\ Len(items) = Len(groups)
    /\ \A k \in 1..Len(groups) :
          /\ items[k].item = groups[k].kind
          /\ items[k].item = "Command" => items[k].range = groups[k].range
          /\ items[k].item = "Comment" => items[k].span = groups[k].range

\* where the reader of a command stands once its arguments are read
ReaderAfter(command) ==
    SkipWhitespace(text, command.range[2],
                   IF Len(command.args) = 0 THEN command.range[1]
                   ELSE command.args[Len(command.args)].span[2])

\* the schema children that follow the arguments of a command
ChildrenAfter(command) ==
    IF Len(command.args) = 0 THEN <<0, lowered.num_roots>>
    ELSE lowered.nodes[command.args[Len(command.args)].lin_node_id].children

IndentationOf(grouping) ==
    [kind |-> "Indentation", span |-> grouping.span, indentation |-> grouping.kind]

\* C11: parse returns Err, with no CST, exactly when grouping the top-level
\* source raises an Indentation error, and the error is that one; otherwise
\* it returns one item for every top-level group, and a command whose error
\* is an Indentation error has a Block child next in the schema, keeps the
\* arguments read before the block, none of them a block, and its error is
\* the one raised by grouping the lines of the block; a command that stops
\* before a Block child with text left carries such an error.
C11_IndentationErrorsStayNested ==
    cst.tag \in {"Ok", "Err"} =>
        LET top == Group(text, Len(text), 0, 0) IN
        /\ (cst.tag = "Err") <=> (top.tag = "Err")
        /\ cst.tag = "Err" => cst.items = <<>> /\ cst.error = <<IndentationOf(top)>>
        /\ cst.tag = "Ok" =>
              /\ ItemsFollow(cst.items, top.groups)
              /\ \A c \in 1..Len(Commands) :
                    LET command == Commands[c] IN
                    (Len(command.error) > 0 /\ command.error[1].kind = "Indentation") =>
                        LET indent == GetIndent(text, ReaderAfter(command))
                            nested == Group(text, command.range[2], indent.line_start,
                                            indent.indent)
                            after == ChildrenAfter(command)
                        IN /\ \E n \in after[1]..(after[2] - 1) :
                                 lowered.nodes[n].node.kind = "Block"
                           /\ \A i \in 1..Len(command.args) :
                                 command.args[i].value.kind # "Block"
                           /\ indent.some
                           /\ nested.tag = "Err"
                           /\ command.error[1] = IndentationOf(nested)
              /\ \A c \in 1..Len(Commands) :
                    LET command == Commands[c]
                        after == ChildrenAfter(command)
                    IN (/\ \A i \in 1..Len(command.args) :
                              command.args[i].value.kind # "Block"
                        /\ ReaderAfter(command) < command.range[2]
                        /\ \E n \in after[1]..(after[2] - 1) :
                              lowered.nodes[n].node.kind = "Block")
                       => /\ Len(command.error) > 0
                          /\ command.error[1].kind = "Indentation"

\* witness of C11: a returned CST whose first command keeps its literal and
\* carries the Indentation error of its block, followed by a second command
C11_Witness ==
    /\ cst.tag = "Ok"
    /\ Len(cst.items) >= 2
    /\ cst.items[1].item = "Command"
    /\ Len(cst.items[1].args) = 1
    /\ cst.items[1].args[1].value.kind = "Literal"
    /\ Len(cst.items[1].error) > 0
    /\ cst.items[1].error[1].kind = "Indentation"
    /\ cst.items[2].item = "Command"
    /\ Len(cst.items[2].args) > 0

\* an argument value with an absent payload: the value of a Boolean, an
\* Integer, a Float, a Double, a String or a Color, the scalar of an Angle
\* or of an axis of Coordinates
AbsentPayload(value) ==
    CASE value.kind \in {"Boolean", "Integer", "Float", "Double", "String", "Angle"} ->
             ~value.value.some
      [] value.kind = "Color" -> ~value.color.some
      [] value.kind = "Coordinates" ->
             \E k \in DOMAIN value.coords :
                 IF value.frame = "Local" THEN ~value.coords[k].some
                 ELSE ~value.coords[k].value.some
      [] OTHER -> FALSE

\* C12: in every CST the parser returns, an argument whose value has an
\* absent payload has a non-empty errors list, and an argument with errors
\* does not end its command: when it is the last argument, the command ends
\* in an error of its own or no text is left behind it.
C12_AbsentPayloadHasErrors ==
    \A c \in 1..Len(Commands) :
        LET command == Commands[c]
            n == Len(command.args)
        IN /\ \A i \in 1..n :
                 AbsentPayload(command.args[i].value) => Len(command.args[i].errors) > 0
           /\ (n > 0 /\ Len(command.args[n].errors) > 0 /\ Len(command.error) = 0)
                 => ReaderAfter(command) >= command.range[2]

\* witness of C12: a returned command whose first argument has an absent
\* payload and an error, followed by an argument parsed without error
C12_Witness ==
    \E c \in 1..Len(Commands) :
        LET command == Commands[c] IN
        /\ Len(command.args) >= 2
        /\ AbsentPayload(command.args[1].value)
        /\ Len(command.args[1].errors) > 0
        /\ Len(command.args[2].errors) = 0
        /\ ~AbsentPayload(command.args[2].value)
        /\ command.args[2].value.kind # "Literal"

\* C13: in every command the parser produces, an argument whose value is a
\* Block is the last of the command's arguments and the command has no
\* error.
C13_BlockEndsCommand ==
    \A c \in 1..Len(Commands) :
        LET command == Commands[c] IN
        \A i \in 1..Len(command.args) :
            command.args[i].value.kind = "Block" =>
                i = Len(command.args) /\ Len(command.error) = 0

\* witness of C13: a command that ends in a block of two commands, the
\* block's last command ending in a block of its own
C13_Witness ==
    \E c \in 1..Len(Commands) :
        LET command == Commands[c]
            n == Len(command.args)
        IN /\ n >= 2
           /\ command.args[n].value.kind = "Block"
           /\ Len(command.args[n].value.items) >= 2
           /\ LET last == command.args[n].value.items[Len(command.args[n].value.items)]
              IN /\ last.item = "Command"
                 /\ Len(last.args) >= 2
                 /\ last.args[Len(last.args)].value.kind = "Block"
                 /\ Len(last.args[Len(last.args)].value.items) > 0

\* the start of the line that holds the byte offset pos of the text
LineStartOf(pos) ==
    CHOOSE i \in 0..pos : /\ i = 0 \/ text[i] = "\n"
                          /\ \A j \in (i + 1)..pos : text[j] # "\n"

\* only spaces separate pos from the newline before it
AfterNewlineAndSpaces(pos) ==
    /\ LineStartOf(pos) > 0
    /\ \A j \in (LineStartOf(pos) + 1)..pos : text[j] = " "

\* where the reader stands when the last argument of a command is reached
ReaderBeforeLast(command) ==
    SkipWhitespace(text, command.range[2],
                   IF Len(command.args) = 1 THEN command.range[1]
                   ELSE command.args[Len(command.args) - 1].span[2])

NameOf(argument) == lowered.nodes[argument.lin_node_id].node.name

\* the command say <message> with the given message
IsSay(item, message) ==
    /\ item.item = "Command"
    /\ Len(item.error) = 0
    /\ Len(item.args) = 2
    /\ item.args[1].value.kind = "Literal" /\ NameOf(item.args[1]) = Say
    /\ item.args[2].value.kind = "String"
    /\ item.args[2].value.value = [some |-> TRUE, v |-> message]
    /\ Len(item.args[2].errors) = 0

\* C14: a Block argument reached where only spaces separate the reader from
\* the preceding newline holds exactly the items of grouping and parsing the
\* text from that line's start to the end of the enclosing command with the
\* line's leading spaces as common indent; reached mid-line it holds exactly
\* one inline command, read from the reader's position.  The input execute
\* run followed by the indented lines say a and say b gives one command
\* [Literal execute, Literal run, Block[say a, say b]].
C14_BlockItems ==
    /\ \A c \in 1..Len(Commands) :
          LET command == Commands[c]
              n == Len(command.args)
          IN (n > 0 /\ command.args[n].value.kind = "Block") =>
                LET pos == ReaderBeforeLast(command)
                    items == command.args[n].value.items
                    line_start == LineStartOf(pos)
                IN IF AfterNewlineAndSpaces(pos)
                   THEN LET block == ParseCommands(lowered, text, command.range[2],
                                                   line_start, pos - line_start,
                                                   NoCalls)
                        IN /\ block.tag = "Ok"
                           /\ items = block.items
                           /\ ItemsFollow(items, Group(text, command.range[2], line_start,
                                                       pos - line_start).groups)
                           /\ command.args[n].span = <<line_start, command.range[2]>>
                   ELSE /\ Len(items) = 1
                        /\ items[1].item = "Command"
                        /\ items[1].range = <<pos, command.range[2]>>
                        /\ command.args[n].span = <<pos, command.range[2]>>
    /\ (text = ExecuteRunText /\ cst.tag # "none") =>
          /\ cst.tag = "Ok"
          /\ Len(cst.items) = 1
          /\ cst.items[1].item = "Command"
          /\ Len(cst.items[1].error) = 0
          /\ Len(cst.items[1].args) = 3
          /\ cst.items[1].args[1].value.kind = "Literal"
          /\ NameOf(cst.items[1].args[1]) = Execute
          /\ cst.items[1].args[2].value.kind = "Literal"
          /\ NameOf(cst.items[1].args[2]) = Run
          /\ cst.items[1].args[3].value.kind = "Block"
          /\ Len(cst.items[1].args[3].value.items) = 2
          /\ IsSay(cst.items[1].args[3].value.items[1], <<"a">>)
          /\ IsSay(cst.items[1].args[3].value.items[2], <<"b">>)

\* witness of C14: the input execute run, say a, say b has been parsed
C14_Witness ==
    /\ text = ExecuteRunText
    /\ cst.tag = "Ok"
    /\ Len(cst.items) = 1
    /\ Len(cst.items[1].args) = 3
    /\ cst.items[1].args[3].value.kind = "Block"

\* a block reached mid-line, holding one inline command that ends in a
\* block of its own
C14_InlineWitness ==
    \E c \in 1..Len(Commands) :
        LET command == Commands[c]
            n == Len(command.args)
        IN /\ n > 0
           /\ command.args[n].value.kind = "Block"
           /\ ~AfterNewlineAndSpaces(ReaderBeforeLast(command))
           /\ Len(command.args[n].value.items) = 1
           /\ LET inline == command.args[n].value.items[1]
              IN /\ Len(inline.args) = 2
                 /\ inline.args[2].value.kind = "Block"
                 /\ Len(inline.args[2].value.items) >= 1

\* C15: with the schema say <message: GreedyPhrase>, the input say "open
\* followed by a newline parses to exactly one command, and that command has
\* a String argument whose errors include UnterminatedString.
C15_UnterminatedStringReported ==
    (text = UnterminatedText /\ cst.tag # "none") =>
        /\ cst.tag = "Ok"
        /\ Len(Commands) = 1
        /\ \E i \in 1..Len(Commands[1].args) :
              /\ Commands[1].args[i].value.kind = "String"
              /\ \E e \in 1..Len(Commands[1].args[i].errors) :
                    Commands[1].args[i].errors[e].kind = "UnterminatedString"

\* what the parser returns for that input: one command whose message is the
\* phrase with its opening quote, without any error
C15_OpenQuoteAccepted ==
    (text = UnterminatedText /\ cst.tag # "none") =>
        /\ cst.tag = "Ok"
        /\ Len(Commands) = 1
        /\ IsSay(Commands[1], <<"\"", "o", "p", "e", "n">>)

(***************************************************************************)
(* Properties of the SourceFile.                                           *)
(***************************************************************************)
\* the number of '\n' among the first idx bytes of the text
NewlinesBefore(string, idx) == Cardinality({i \in 1..idx : string[i] = "\n"})

\* C16: line_endings is the strictly ascending list of the offsets of every
\* '\n' of the current text, after SourceFile::new and after every
\* replace_range within the text, and byte_to_line(idx) is the number of
\* '\n' strictly before idx for idx <= text.len() and None beyond; so is the
\* result of the last byte_to_line call.
C16_LineEndingsTrackText ==
    /\ \A k \in 1..(Len(source.line_endings) - 1) :
          source.line_endings[k] < source.line_endings[k + 1]
    /\ {source.line_endings[k] : k \in 1..Len(source.line_endings)}
          = {i \in 0..(Len(source.text) - 1) : source.text[i + 1] = "\n"}
    /\ \A idx \in 0..Len(source.text) :
          ByteToLine(source, idx) = [some |-> TRUE,
                                     line |-> NewlinesBefore(source.text, idx)]
    /\ \A idx \in (Len(source.text) + 1)..(MaxSourceText + 2) :
          ByteToLine(source, idx) = NoLine
    /\ source.query # NoQuery =>
          source.query.line = IF source.query.idx <= Len(source.text)
                              THEN [some |-> TRUE,
                                    line |-> NewlinesBefore(source.text, source.query.idx)]
                              ELSE NoLine

\* witness of C16: after two replace_range calls a text of three line
\* endings, the last at its very end, looked up at the offset of the second
C16_Witness ==
    /\ source.edits = 2
    /\ Len(source.line_endings) = 3
    /\ source.line_endings[3] = Len(source.text) - 1
    /\ source.query.idx = source.line_endings[2]
    /\ source.query.line = [some |-> TRUE, line |-> 1]

(***************************************************************************)
(* Properties of the SmallString.                                          *)
(***************************************************************************)
\* C17: a value made from a string of L bytes is stored inline iff L <= 15
\* and on the heap otherwise; is_inline, reading the first byte of the
\* value, tells the stored form for every length; deref gives exactly the
\* bytes of the string for the value and for its clone, the clone of a heap
\* string has an allocation of its own, and drop frees the allocation of a
\* heap string and nothing else.
C17_FormIsClassified ==
    \A i \in 1..Len(small.values) :
        LET v == small.values[i] IN
        /\ (v.form = "inline") <=> (Len(v.of) <= MAX_INLINE_LEN)
        /\ IsInline(v.mem) <=> (v.form = "inline")
        /\ v.alive => SmallDeref(v.mem, small.heap, small.endian)
                         = [tag |-> "Ok", bytes |-> v.of]
        /\ v.read # NotRead => v.read = [tag |-> "Ok", bytes |-> v.of]
        /\ v.form = "heap" =>
              /\ small.heap[v.alloc].live = v.alive
              /\ \A j \in 1..Len(small.values) : j # i => small.values[j].alloc # v.alloc

\* the same for the strings whose length has a low byte below 128, and for
\* every string where the first byte of a usize is its most significant
C17_FormIsClassifiedBelow128 ==
    \A i \in 1..Len(small.values) :
        LET v == small.values[i] IN
        (small.endian = "big" \/ Len(v.of) % 256 < 128) =>
            /\ (v.form = "inline") <=> (Len(v.of) <= MAX_INLINE_LEN)
            /\ IsInline(v.mem) <=> (v.form = "inline")
            /\ v.alive => SmallDeref(v.mem, small.heap, small.endian)
                             = [tag |-> "Ok", bytes |-> v.of]
            /\ v.read # NotRead => v.read = [tag |-> "Ok", bytes |-> v.of]
            /\ v.form = "heap" =>
                  /\ small.heap[v.alloc].live = v.alive
                  /\ \A j \in 1..Len(small.values) :
                        j # i => small.values[j].alloc # v.alloc

(***************************************************************************)
(* Properties of the parser: the error that ends a command.                *)
(***************************************************************************)
KindsIn(children) == {lowered.nodes[n].node.kind : n \in children[1]..(children[2] - 1)}

\* the conditions under which the parse_children call that follows the
\* arguments of a command is to return InvalidLiteral: input remains behind
\* the whitespace, the children start with a Literal, none of them is an
\* Argument or a Block, and the word read equals no Literal child's name
ExpectsInvalidLiteral(command) ==
    LET pos == ReaderAfter(command)
        children == ChildrenAfter(command)
        word == Slice(text, pos, ReadUntilWhitespace(text, command.range[2], pos))
    IN /\ pos < command.range[2]
       /\ children[1] < children[2]
       /\ lowered.nodes[children[1]].node.kind = "Literal"
       /\ KindsIn(children) = {"Literal"}
       /\ \A n \in children[1]..(children[2] - 1) : lowered.nodes[n].node.name # word

\* C18: a command ends in InvalidLiteral exactly when the parse_children
\* call behind its arguments finds input left, a children range that starts
\* with a Literal and holds no Argument or Block, and a word that is no
\* Literal child's name; the error's span is that word and valid_literals
\* the whole children range.  frobnicate against the root literals say and
\* tp gives span 0..10 and the root range.
C18_InvalidLiteral ==
    /\ \A c \in 1..Len(Commands) :
          LET command == Commands[c]
              n == Len(command.args)
              pos == ReaderAfter(command)
          IN IF n > 0 /\ command.args[n].value.kind = "Block"
             THEN Len(command.error) = 0
             ELSE /\ (Len(command.error) > 0 /\ command.error[1].kind = "InvalidLiteral")
                        <=> ExpectsInvalidLiteral(command)
                  /\ ExpectsInvalidLiteral(command) =>
                        command.error[1]
                            = [kind |-> "InvalidLiteral",
                               span |-> <<pos, ReadUntilWhitespace(text, command.range[2],
                                                                   pos)>>,
                               valid_literals |-> ChildrenAfter(command)]
    /\ (text = FrobnicateText /\ cst.tag # "none" /\ lowered.num_roots = 2) =>
          /\ cst.tag = "Ok"
          /\ Len(cst.items) = 1
          /\ cst.items[1].args = <<>>
          /\ cst.items[1].error = <<[kind |-> "InvalidLiteral", span |-> <<0, 10>>,
                                     valid_literals |-> <<0, lowered.num_roots>>]>>

\* witness of C18: frobnicate has been parsed against the literals say and
\* tp and the command ends in InvalidLiteral
C18_Witness ==
    /\ text = FrobnicateText
    /\ lowered.num_roots = 2
    /\ cst.tag = "Ok"
    /\ Len(cst.items) = 1
    /\ Len(cst.items[1].error) = 1
    /\ cst.items[1].error[1].kind = "InvalidLiteral"

\* a command that keeps an argument and ends in InvalidLiteral for the word
\* behind it, which other literals of the schema would match
C18_NestedWitness ==
    \E c \in 1..Len(Commands) :
        LET command == Commands[c] IN
        /\ Len(command.args) > 0
        /\ Len(command.error) = 1
        /\ command.error[1].kind = "InvalidLiteral"
        /\ command.error[1].valid_literals # <<0, lowered.num_roots>>
        /\ command.error[1].span[2] = command.range[2]

(***************************************************************************)
(* Properties of the parser: the argument parsers inside parse_children.   *)
(***************************************************************************)
\* the argument kinds Argument::parse has a parser for
ImplementedArguments ==
    {"Bool", "Integer", "Float", "Double", "SingleWord", "QuotablePhrase", "GreedyPhrase",
     "Angle", "BlockPos", "ColumnPos", "Vec2", "Vec3", "Color"}

\* the argument kinds of the schema
SchemaArguments ==
    {lowered.nodes[n].node.arg :
        n \in {m \in DOMAIN lowered.nodes : lowered.nodes[m].node.kind = "Argument"}}

\* the readers parse_children hands to an argument parser: a position on a
\* character that is no whitespace, in a source cut at end
ArgumentReaders ==
    {r \in (0..Len(text)) \X (0..Len(text)) : r[1] < r[2] /\ text[r[1] + 1] \notin Whitespace}

\* C19: whenever the parser of an argument of the schema returns Ok, from
\* any reader parse_children can hand it, the reader is left at the end of
\* the input or on whitespace, so that the assertion behind the call holds.
C19_ArgumentsEndAtWordEnd ==
    cst.tag # "none" =>
        \A arg \in SchemaArguments \cap ImplementedArguments :
            \A r \in ArgumentReaders :
                LET parsed == ParseArgument(arg, text, r[2], r[1])
                IN parsed.tag = "Ok" => AtWordEnd(text, r[2], parsed.pos)

\* the same for the arguments that do not open with a quote, and for the
\* greedy phrase, which takes the quote as text
C19_UnquotedEndAtWordEnd ==
    cst.tag # "none" =>
        \A arg \in SchemaArguments \cap ImplementedArguments :
            \A r \in ArgumentReaders :
                LET parsed == ParseArgument(arg, text, r[2], r[1])
                IN (/\ parsed.tag = "Ok"
                    /\ \/ arg \notin {"SingleWord", "QuotablePhrase"}
                       \/ text[r[1] + 1] \notin {"\"", "'"})
                   => AtWordEnd(text, r[2], parsed.pos)

\* the parse_children call that reads the i-th argument of a command, or
\* the error behind its last one: where its reader stands and its children
StepReader(command, i) ==
    SkipWhitespace(text, command.range[2],
                   IF i = 1 THEN command.range[1] ELSE command.args[i - 1].span[2])

StepChildren(command, i) ==
    IF i = 1 THEN <<0, lowered.num_roots>>
    ELSE lowered.nodes[command.args[i - 1].lin_node_id].children

\* the call comes to choose among its Argument children: input is left, no
\* Literal child matches the word read and the range holds no Block
ChoosesCandidate(command, i) ==
    LET pos == StepReader(command, i)
        children == StepChildren(command, i)
        word == Slice(text, pos, ReadUntilWhitespace(text, command.range[2], pos))
    IN /\ pos < command.range[2]
       /\ "Argument" \in KindsIn(children)
       /\ "Block" \notin KindsIn(children)
       /\ \A n \in children[1]..(children[2] - 1) :
             lowered.nodes[n].node.kind = "Literal" => lowered.nodes[n].node.name # word

\* what the parser of the Argument child n returns at the reader of the call
OutcomeOf(command, i, n) ==
    ParseArgument(lowered.nodes[n].node.arg, text, command.range[2], StepReader(command, i))

\* the class of that outcome by itself: Ok without errors, Ok with errors, Err
ClassOf(command, i, n) ==
    LET parsed == OutcomeOf(command, i, n)
    IN IF parsed.tag = "Err" THEN 2 ELSE IF Len(parsed.errors) > 0 THEN 1 ELSE 0

ArgumentChildren(command, i) ==
    {n \in StepChildren(command, i)[1]..(StepChildren(command, i)[2] - 1) :
        lowered.nodes[n].node.kind = "Argument"}

\* the Argument child of the least class, the lowest index within the class
BestCandidate(command, i) ==
    CHOOSE n \in ArgumentChildren(command, i) :
        \A m \in ArgumentChildren(command, i) :
            \/ ClassOf(command, i, n) < ClassOf(command, i, m)
            \/ ClassOf(command, i, n) = ClassOf(command, i, m) /\ n <= m

\* C20: a parse_children call that matches no Literal child and reaches no
\* Block child returns the outcome of the Argument child that is least in
\* the order Ok without errors < Ok with errors < Err, the class taken from
\* the child's own parse alone, and of the lowest index within its class:
\* that child's argument is the next of the command, or its Err the error
\* the command ends in.
C20_BestCandidateReturned ==
    \A c \in 1..Len(Commands) :
        LET command == Commands[c] IN
        \A i \in 1..(Len(command.args) + 1) :
            ChoosesCandidate(command, i) =>
                LET best == BestCandidate(command, i)
                    parsed == OutcomeOf(command, i, best)
                IN IF ClassOf(command, i, best) = 2
                   THEN /\ i = Len(command.args) + 1
                        /\ command.error = <<parsed.value>>
                   ELSE /\ i <= Len(command.args)
                        /\ command.args[i]
                              = CstArgument(<<StepReader(command, i), parsed.pos>>, best,
                                            parsed.value, parsed.errors)

\* witness of C20: a command whose only argument was chosen among several
\* of the class Ok without errors, as the one of the lowest index, and that
\* ends in an error, while another child of the same class would have read
\* the command to its end
C20_Witness ==
    \E c \in 1..Len(Commands) :
        LET command == Commands[c] IN
        /\ Len(command.args) = 1
        /\ Len(command.error) = 1
        /\ ChoosesCandidate(command, 1)
        /\ ClassOf(command, 1, command.args[1].lin_node_id) = 0
        /\ \E m \in ArgumentChildren(command, 1) :
              /\ m > command.args[1].lin_node_id
              /\ ClassOf(command, 1, m) = 0
              /\ SkipWhitespace(text, command.range[2], OutcomeOf(command, 1, m).pos)
                    = command.range[2]

\* a command that ends in the Err of the lowest of its candidates, all of
\* them Err
C20_ErrWitness ==
    \E c \in 1..Len(Commands) :
        LET command == Commands[c] IN
        /\ Len(command.error) = 1
        /\ ChoosesCandidate(command, Len(command.args) + 1)
        /\ command.error[1].kind = "UnterminatedString"

(***************************************************************************)
(* Properties of the parser: the Literal children of parse_children.       *)
(***************************************************************************)
\* the word parse_children reads ahead at the i-th step of a command
StepWord(command, i) ==
    <<StepReader(command, i),
      ReadUntilWhitespace(text, command.range[2], StepReader(command, i))>>

\* the Literal children of the step whose name is that word
MatchingLiterals(command, i) ==
    {n \in StepChildren(command, i)[1]..(StepChildren(command, i)[2] - 1) :
        /\ lowered.nodes[n].node.kind = "Literal"
        /\ lowered.nodes[n].node.name = Slice(text, StepWord(command, i)[1],
                                              StepWord(command, i)[2])}

\* the step reads a word ahead and a Literal child has it as its name
MatchesLiteral(command, i) ==
    /\ i > 1 => command.args[i - 1].value.kind # "Block"
    /\ StepReader(command, i) < command.range[2]
    /\ MatchingLiterals(command, i) # {}

\* C21: a parse_children call whose pre-read word is the name of a Literal
\* child returns that literal, its span the word, its value Literal, with no
\* errors, and after it what parse_children gives for the literal's own
\* children from the end of the word, error included; no Argument or Block
\* sibling takes its place.
C21_LiteralShortCircuits ==
    \A c \in 1..Len(Commands) :
        LET command == Commands[c] IN
        \A i \in 1..(Len(command.args) + 1) :
            MatchesLiteral(command, i) =>
                LET word == StepWord(command, i)
                    literal == CHOOSE n \in MatchingLiterals(command, i) :
                                   \A m \in MatchingLiterals(command, i) : n <= m
                    next == ParseChildren(lowered, text, command.range[2], word[2],
                                          lowered.nodes[literal].children, NoCalls)
                IN /\ i <= Len(command.args)
                   /\ command.args[i] = CstArgument(word, literal, [kind |-> "Literal"], <<>>)
                   /\ next.tag \in {"None", "Ok", "Err"}
                   /\ SubSeq(command.args, i + 1, Len(command.args)) = next.args
                   /\ command.error = next.error

\* witness of C21: a command that is a matched literal and the error its
\* continuation ends in, while an Argument sibling of the literal reads the
\* same word without error
C21_Witness ==
    \E c \in 1..Len(Commands) :
        LET command == Commands[c] IN
        /\ Len(command.args) = 1
        /\ MatchesLiteral(command, 1)
        /\ command.args[1].value.kind = "Literal"
        /\ Len(command.error) = 1
        /\ \E m \in ArgumentChildren(command, 1) :
              /\ ClassOf(command, 1, m) = 0
              /\ OutcomeOf(command, 1, m).pos = command.args[1].span[2]

(***************************************************************************)
(* Properties of grouping: the lines group reads from its offset, each     *)
(* with its indent and first character, taken from the text itself.        *)
(***************************************************************************)
\* the lines of text[offset..]: the first starts at the offset
GroupLines ==
    {rg \in LineRangesOf(text) : rg[1] >= grouped.offset}

NonBlank == {line \in GroupLines : ~IsBlank(SubText(text, line))}

\* the number of spaces a non-blank line starts with
IndentOf(line) ==
    CHOOSE i \in 0..(line[2] - line[1] - 1) :
        /\ text[line[1] + i + 1] # " "
        /\ \A j \in 0..(i - 1) : text[line[1] + j + 1] = " "

FirstCharOf(line) == text[line[1] + IndentOf(line) + 1]

IsCommentLine(line) == FirstCharOf(line) = "#" /\ IndentOf(line) <= grouped.indent

\* a line that starts a command group
IsStartLine(line) ==
    /\ IndentOf(line) = grouped.indent
    /\ FirstCharOf(line) \notin {"#"} \cup Whitespace

\* a command group is open at a line: a line before it starts a group and
\* every line between the two is deeper than the common indent
GroupOpenAt(line) ==
    \E start \in NonBlank :
        /\ start[1] < line[1]
        /\ IsStartLine(start)
        /\ \A between \in NonBlank :
              (start[1] < between[1] /\ between[1] < line[1])
                  => IndentOf(between) > grouped.indent

MixedLine(line) == FirstCharOf(line) \in Whitespace \ {" "}

ShallowLine(line) == FirstCharOf(line) # "#" /\ IndentOf(line) < grouped.indent

OrphanLine(line) == IndentOf(line) > grouped.indent /\ ~GroupOpenAt(line)

FailingLines ==
    {line \in NonBlank : MixedLine(line) \/ ShallowLine(line) \/ OrphanLine(line)}

FirstLine(lines) == CHOOSE line \in lines : \A other \in lines : line[1] <= other[1]

\* C22: group(text, offset, c) fails exactly when a non-blank line has a
\* whitespace other than space as its first character after the spaces, or
\* is no comment and is indented less than c, or is indented more than c
\* with no command group open; the error is the one of the first such line,
\* MixedWhitespace for the first reason and InvalidIndentation for the
\* others, its span is the line, and no groups are returned.
C22_GroupFailsOnFirstBadLine ==
    grouped.result.tag # "none" =>
        IF FailingLines = {}
        THEN grouped.result.tag = "Ok"
        ELSE LET line == FirstLine(FailingLines)
             IN grouped.result
                   = [tag |-> "Err",
                      kind |-> IF MixedLine(line) THEN "MixedWhitespace"
                               ELSE "InvalidIndentation",
                      span |-> line,
                      groups |-> <<>>]

\* witness of C22: group called from the start of a later line fails with
\* MixedWhitespace on a line that a deeper line with no group open follows
C22_Witness ==
    /\ grouped.result.tag = "Err"
    /\ grouped.offset > 0
    /\ grouped.result.kind = "MixedWhitespace"
    /\ \E line \in FailingLines :
          /\ line[1] > grouped.result.span[1]
          /\ OrphanLine(line)
          /\ ~MixedLine(line)

\* a grouping that fails on a deeper line behind a comment that closed the
\* command group before it
C22_ClosedGroupWitness ==
    /\ grouped.result.tag = "Err"
    /\ grouped.result.kind = "InvalidIndentation"
    /\ IndentOf(grouped.result.span) > grouped.indent
    /\ \E start \in NonBlank, comment \in NonBlank :
          /\ IsStartLine(start)
          /\ IsCommentLine(comment)
          /\ start[1] < comment[1]
          /\ comment[1] < grouped.result.span[1]

\* a grouping that fails on a line that is no comment and is indented less
\* than the common indent, behind a comment that is
C22_ShallowWitness ==
    /\ grouped.result.tag = "Err"
    /\ grouped.result.kind = "InvalidIndentation"
    /\ ShallowLine(grouped.result.span)
    /\ \E comment \in NonBlank :
          /\ IsCommentLine(comment)
          /\ IndentOf(comment) < grouped.indent
          /\ comment[1] < grouped.result.span[1]

\* the last line of the command group a line starts: the last of the lines
\* deeper than the common indent that follow it with none between that is
\* not, or the line itself
LastLineOf(start) ==
    LET run == {line \in NonBlank :
                   /\ line[1] >= start[1]
                   /\ \A between \in NonBlank :
                         (start[1] < between[1] /\ between[1] <= line[1])
                             => IndentOf(between) > grouped.indent}
    IN CHOOSE line \in run : \A other \in run : other[1] <= line[1]

\* the groups of the text: a comment for every comment line and a command
\* for every line that starts one
ExpectedGroups ==
    {CommentGroup(line) : line \in {l \in NonBlank : IsCommentLine(l)}}
        \cup {CommandGroup(<<start[1], LastLineOf(start)[2]>>) :
                  start \in {l \in NonBlank : IsStartLine(l)}}

RECURSIVE InSourceOrder(_)
InSourceOrder(S) ==
    IF S = {} THEN <<>>
    ELSE LET lo == CHOOSE g \in S : \A o \in S : g.range[1] <= o.range[1]
         IN <<lo>> \o InSourceOrder(S \ {lo})

\* C23: when group(text, offset, c) succeeds its groups are, in source
\* order, one Comment for every line whose first character after the spaces
\* is # and whose indent is at most c, the line being its span, and one
\* Command for every other line of indent c, from the start of that line to
\* the end of the last line deeper than c that follows it before the next
\* line of indent at most c; a comment therefore ends the group before it.
C23_GroupsAreLineRuns ==
    grouped.result.tag = "Ok" =>
        grouped.result.groups = InSourceOrder(ExpectedGroups)

\* witness of C23: a command group of a line of the common indent, a blank
\* line and a deeper line, closed by a comment
C23_Witness ==
    /\ grouped.result.tag = "Ok"
    /\ \E k \in 1..(Len(grouped.result.groups) - 1) :
          LET command == grouped.result.groups[k] IN
          /\ command.kind = "Command"
          /\ grouped.result.groups[k + 1].kind = "Comment"
          /\ \E blank \in GroupLines \ NonBlank, deeper \in NonBlank :
                /\ command.range[1] < blank[1]
                /\ blank[2] < deeper[1]
                /\ deeper[2] = command.range[2]

\* a successful grouping from the start of a later line, at indent 1, with
\* a comment left of the command behind it
C23_OffsetWitness ==
    /\ grouped.result.tag = "Ok"
    /\ grouped.offset > 0
    /\ grouped.indent = 1
    /\ \E k \in 1..(Len(grouped.result.groups) - 1) :
          /\ grouped.result.groups[k].kind = "Comment"
          /\ IndentOf(grouped.result.groups[k].range) = 0
          /\ grouped.result.groups[k + 1].kind = "Command"

\* a command group that takes in a deeper line starting with #
C23_DeepHashWitness ==
    /\ grouped.result.tag = "Ok"
    /\ \E k \in 1..Len(grouped.result.groups), line \in NonBlank :
          /\ grouped.result.groups[k].kind = "Command"
          /\ FirstCharOf(line) = "#"
          /\ grouped.result.groups[k].range[1] < line[1]
          /\ line[2] = grouped.result.groups[k].range[2]

(***************************************************************************)
(* Properties of the parser: the number arguments.                         *)
(***************************************************************************)
\* the arguments of the returned commands that a number parser read
NumberArguments ==
    UNION {{Commands[c].args[i] :
               i \in {j \in 1..Len(Commands[c].args) :
                         Commands[c].args[j].value.kind \in {"Integer", "Float", "Double"}}} :
           c \in 1..Len(Commands)}

\* the error kind of the parser of a number argument
NumberErrorOf(argument) ==
    CASE argument.value.kind = "Integer" -> "ParseInteger"
      [] argument.value.kind = "Float" -> "ParseFloat"
      [] argument.value.kind = "Double" -> "ParseDouble"

WordOf(argument) == Slice(text, argument.span[1], argument.span[2])

\* the word of a number argument is no number of its kind
NotANumber(argument) ==
    \/ ~All(WordOf(argument), IsNumberChar)
    \/ IF argument.value.kind = "Integer" THEN ~ParseI32(WordOf(argument)).some
       ELSE ~ParseDecimal(WordOf(argument)).some

\* C24: a number argument spans the word up to the next whitespace, and
\* when the word holds a character outside 0-9 . - or does not convert, its
\* value is None and its errors are exactly one error of the kind of its
\* parser (ParseInteger, ParseFloat, ParseDouble) with the word as span.
C24_NumberErrorKindMatches ==
    \A argument \in NumberArguments :
        /\ AtWordEnd(text, Len(text), argument.span[2])
        /\ NotANumber(argument) =>
              /\ ~argument.value.value.some
              /\ argument.errors
                    = <<ParseErr(NumberErrorOf(argument), argument.span[1], argument.span[2])>>

\* the same with the kind the parsers record: ParseInteger for a word with
\* a character outside 0-9 . - whatever the parser, the kind of the parser
\* for a word that does not convert
C24_NumberErrorKindRecorded ==
    \A argument \in NumberArguments :
        /\ AtWordEnd(text, Len(text), argument.span[2])
        /\ NotANumber(argument) =>
              /\ ~argument.value.value.some
              /\ argument.errors
                    = <<ParseErr(IF ~All(WordOf(argument), IsNumberChar) THEN "ParseInteger"
                                 ELSE NumberErrorOf(argument),
                                 argument.span[1], argument.span[2])>>
        /\ ~NotANumber(argument) => argument.value.value.some /\ argument.errors = <<>>

(***************************************************************************)
(* Properties of the parser: world coordinates.  The k-th axis of a tuple  *)
(* is the k-th word of the text from the start of the argument.            *)
(***************************************************************************)
RECURSIVE AxisStart(_, _, _)
AxisStart(command, argument, k) ==
    IF k = 1 THEN argument.span[1]
    ELSE SkipWhitespace(text, command.range[2],
                        ReadUntilWhitespace(text, command.range[2],
                                            AxisStart(command, argument, k - 1)))

AxisEnd(command, argument, k) ==
    ReadUntilWhitespace(text, command.range[2], AxisStart(command, argument, k))

\* the errors of an argument that the k-th axis recorded for its prefix and
\* its number
AxisErrors(command, argument, k) ==
    SelectSeq(argument.errors,
              LAMBDA e : /\ e.kind \in {"MixedCoordinates", "ParseInteger", "ParseDouble"}
                         /\ AxisStart(command, argument, k) <= e.span[1]
                         /\ e.span[1] <= AxisEnd(command, argument, k))

\* the k-th axis is written as ^, alone or with digits behind it
CaretAxis(command, argument, k) ==
    LET from == AxisStart(command, argument, k)
        to == AxisEnd(command, argument, k)
    IN /\ from < to
       /\ text[from + 1] = "^"
       /\ All(Slice(text, from + 1, to), IsDigit)

\* the world coordinates among the arguments of the returned commands, each
\* with its command
WorldTuples ==
    UNION {{<<Commands[c], Commands[c].args[i]>> :
               i \in {j \in 1..Len(Commands[c].args) :
                         /\ Commands[c].args[j].value.kind = "Coordinates"
                         /\ Commands[c].args[j].value.frame = "World"}} :
           c \in 1..Len(Commands)}

\* C25: in a tuple of world coordinates an axis written with ^ records
\* MixedCoordinates at the ^ and nothing else, the axis is absolute and
\* carries a value, and the axes behind it are read as the words that
\* follow; tp ~ ^ 3 gives {0.0, relative}, an axis with a value, {3,
\* absolute} and the one error.
C25_MixedAxisKeepsValue ==
    \A tuple \in WorldTuples :
        LET command == tuple[1]
            argument == tuple[2]
        IN \A k \in DOMAIN argument.value.coords :
               CaretAxis(command, argument, k) =>
                   /\ AxisErrors(command, argument, k)
                         = <<ParseErr("MixedCoordinates", AxisStart(command, argument, k),
                                      AxisStart(command, argument, k) + 1)>>
                   /\ argument.value.coords[k].value.some
                   /\ ~argument.value.coords[k].relative

\* what the parser does with such an axis: with digits behind the ^ it is as
\* stated, the digits the value; a ^ alone is an absolute axis without its
\* number, so the number parser reads the empty word behind it and adds its
\* own error, leaving no value
C25_MixedAxisAsParsed ==
    \A tuple \in WorldTuples :
        LET command == tuple[1]
            argument == tuple[2]
        IN \A k \in DOMAIN argument.value.coords :
               CaretAxis(command, argument, k) =>
                   LET from == AxisStart(command, argument, k)
                       to == AxisEnd(command, argument, k)
                       mixed == ParseErr("MixedCoordinates", from, from + 1)
                   IN /\ ~argument.value.coords[k].relative
                      /\ IF to = from + 1
                         THEN /\ Len(AxisErrors(command, argument, k)) = 2
                              /\ AxisErrors(command, argument, k)[1] = mixed
                              /\ AxisErrors(command, argument, k)[2].kind
                                    \in {"ParseInteger", "ParseDouble"}
                              /\ AxisErrors(command, argument, k)[2].span = <<to, to>>
                              /\ ~argument.value.coords[k].value.some
                         ELSE /\ AxisErrors(command, argument, k) = <<mixed>>
                              /\ argument.value.coords[k].value
                                    = [some |-> TRUE,
                                       v |-> <<NaturalOf(Slice(text, from + 1, to),
                                                         to - from - 1), 0>>]

(***************************************************************************)
(* Properties of the parser: the commands against the schema.              *)
(***************************************************************************)
\* the kind of value the parser of an argument kind returns
ValueKindOf(arg) ==
    CASE arg = "Bool" -> "Boolean"
      [] arg \in {"Integer", "Float", "Double", "Angle", "Color"} -> arg
      [] arg \in {"SingleWord", "QuotablePhrase", "GreedyPhrase"} -> "String"
      [] arg \in {"BlockPos", "ColumnPos", "Vec2", "Vec3"} -> "Coordinates"
      [] OTHER -> "none"

\* the value of an argument is of the kind of its schema node
MatchesNode(argument) ==
    LET node == lowered.nodes[argument.lin_node_id].node
    IN CASE node.kind = "Literal" ->
                /\ argument.value.kind = "Literal"
                /\ Slice(text, argument.span[1], argument.span[2]) = node.name
         [] node.kind = "Block" -> argument.value.kind = "Block"
         [] node.kind = "Argument" -> argument.value.kind = ValueKindOf(node.arg)

\* C26: every command the parser produces follows a path of the schema:
\* its first argument is a root entry, each further argument is an entry in
\* the children range of the entry before it, the value of each argument is
\* of the kind of its entry, and the text under a Literal argument is the
\* name of its entry.
C26_CommandsFollowSchema ==
    \A c \in 1..Len(Commands) :
        LET command == Commands[c] IN
        \A i \in 1..Len(command.args) :
            /\ command.args[i].lin_node_id \in DOMAIN lowered.nodes
            /\ command.args[i].lin_node_id >= StepChildren(command, i)[1]
            /\ command.args[i].lin_node_id < StepChildren(command, i)[2]
            /\ MatchesNode(command.args[i])

\* witness of C26: a command without error of a literal, an argument and,
\* through the redirect of the argument's node, a root literal and the
\* argument again
C26_Witness ==
    \E c \in 1..Len(Commands) :
        LET command == Commands[c] IN
        /\ ErrorFree(command)
        /\ Len(command.args) = 4
        /\ command.args[1].value.kind = "Literal"
        /\ command.args[2].value.kind = "Integer"
        /\ command.args[3].lin_node_id = command.args[1].lin_node_id
        /\ command.args[4].lin_node_id = command.args[2].lin_node_id

\* a command nested in a block that starts at a root entry again, behind
\* the literal and the block of its parent
C26_NestedWitness ==
    \E c \in 1..Len(Commands), d \in 1..Len(Commands) :
        LET command == Commands[c]
            n == Len(command.args)
        IN /\ n = 2
           /\ command.args[2].value.kind = "Block"
           /\ lowered.nodes[command.args[2].lin_node_id].node.kind = "Block"
           /\ d # c
           /\ Within(Commands[d].range, command.args[2].span)
           /\ Len(Commands[d].args) = 2
           /\ Commands[d].args[1].lin_node_id < lowered.num_roots

(***************************************************************************)
(* Properties of the lowered tree against the build tree.                  *)
(***************************************************************************)
\* the build children of a node: the members of its child list
BuildChildren(bt, id) ==
    IF bt[id].next.tag = "Children" /\ bt[id].next.count > 0
    THEN ListMembers(bt, bt[id].next.first_child)
    ELSE {}

\* the build nodes reachable from a node through child lists
RECURSIVE ReachableFrom(_, _)
ReachableFrom(bt, id) ==
    BuildChildren(bt, id) \cup UNION {ReachableFrom(bt, c) : c \in BuildChildren(bt, id)}

\* the build nodes the entries of a range were made from
OriginsIn(range) == {lowered.nodes[k].origin : k \in range[1]..(range[2] - 1)}

\* one entry for every build node reachable from ROOT and for no other, each
\* holding the Node of its build node, and num_roots the child count of ROOT
EmitsReachable ==
    /\ {lowered.nodes[i].origin : i \in Entries} = ReachableFrom(nodes, ROOT)
    /\ \A i \in Entries, j \in Entries :
          lowered.nodes[i].origin = lowered.nodes[j].origin => i = j
    /\ \A i \in Entries : lowered.nodes[i].node = nodes[lowered.nodes[i].origin].node
    /\ lowered.num_roots = nodes[ROOT].next.count
    /\ OriginsIn(<<0, lowered.num_roots>>) = BuildChildren(nodes, ROOT)

\* the children range of the entry of a build node that does not redirect
\* holds the entries of its build children and no other
KeepsChildren(i) ==
    LET range == EntryRange(i)
        origin == lowered.nodes[i].origin
    IN /\ 0 <= range[1] /\ range[1] <= range[2] /\ range[2] <= VLen(lowered.nodes)
       /\ range[2] - range[1] = nodes[origin].next.count
       /\ OriginsIn(range) = BuildChildren(nodes, origin)

\* C27: into_parsing_tree emits exactly one entry for each build node
\* reachable from ROOT through child lists, not for ROOT or the nodes that
\* clear_node cut off, sets num_roots to the child count of ROOT, and the
\* children range of the entry of every reachable node that does not
\* redirect holds exactly the Nodes of its build children.
C27_LoweringKeepsChildren ==
    lowered.tag = "tree" =>
        /\ EmitsReachable
        /\ \A i \in Entries :
              ~IsRedirect(nodes, lowered.nodes[i].origin) => KeepsChildren(i)

\* the same for the entries that no redirect is queued for at the position
\* they end at: the entries of the trees without a redirect, and one entry
\* for each reachable node in every tree
C27_LoweringKeepsChildrenUnredirected ==
    lowered.tag = "tree" =>
        /\ EmitsReachable
        /\ (\A id \in Ids : ~IsRedirect(nodes, id)) => \A i \in Entries : KeepsChildren(i)

\* a lowering that leaves out a node cut off by clear_node and moves
\* entries with their children in partition
C27_ClearedWitness ==
    /\ lowered.tag = "tree"
    /\ clears = 1
    /\ VLen(lowered.nodes) < VLen(nodes) - 1
    /\ RootListStartsNonLiteral
    /\ \E k \in 0..(lowered.num_roots - 1) :
          /\ IsLiteralEntry(lowered.nodes[k])
          /\ EntryRange(k)[1] < EntryRange(k)[2]

(***************************************************************************)
(* Properties of the parser: termination.                                  *)
(***************************************************************************)
NoRootBlock ==
    \A k \in 0..(lowered.num_roots - 1) : lowered.nodes[k].node.kind # "Block"

\* an entry whose children range does not lie behind it: the range a
\* redirect gave it
LeadsBack(i) == EntryRange(i)[1] <= i /\ EntryRange(i)[1] < EntryRange(i)[2]

\* C28: on a tree none of whose root entries is a Block, redirects that
\* lead back to the roots included, parse comes to an end on every text: the
\* recursion never exhausts the stack, and in every command returned each
\* Literal and each parsed argument starts where its parse_children call
\* stands and ends at least one byte further, which is where the call for
\* the next argument starts.
C28_ParseTerminates ==
    (cst.tag # "none" /\ NoRootBlock) =>
        /\ cst.tag # "Overflow"
        /\ \A c \in 1..Len(Commands) :
              LET command == Commands[c] IN
              \A i \in 1..Len(command.args) :
                  command.args[i].value.kind # "Block" =>
                      /\ command.args[i].span[1] = StepReader(command, i)
                      /\ command.args[i].span[2] > command.args[i].span[1]
                      /\ StepReader(command, i + 1) > StepReader(command, i)

\* witness of C28: a parse on a tree without a root Block came back with a
\* command that went through a redirect to the roots and ended there in an
\* error
C28_Witness ==
    /\ cst.tag = "Ok"
    /\ NoRootBlock
    /\ \E c \in 1..Len(Commands) :
          LET command == Commands[c]
              n == Len(command.args)
          IN /\ n >= 2
             /\ LeadsBack(command.args[n].lin_node_id)
             /\ Len(command.error) = 1
             /\ command.error[1].kind = "InvalidLiteral"
             /\ command.error[1].valid_literals = <<0, lowered.num_roots>>

\* a parse on a tree with a Block among its roots that never comes back
C28_RootBlockWitness ==
    /\ cst.tag = "Overflow"
    /\ ~NoRootBlock

(***************************************************************************)
(* Properties of find_node_id: termination.                                *)
(***************************************************************************)
\* a node that redirects to itself
SelfRedirecting(id) == IsRedirect(nodes, id) /\ nodes[id].next.target = id

\* C29: on every build tree that insert, clear_node and redirect calls that
\* do not panic lead to, find_node_id returns for every path: its loop over
\* the redirects comes to a node with children or without, and never goes
\* round a cycle.
C29_FindTerminates ==
    found.result.tag # "Hang"

\* the same for the trees in which no node redirects to itself, the one
\* cycle redirect lets through
C29_FindTerminatesWithoutSelfRedirect ==
    (\A id \in Ids : ~SelfRedirecting(id)) => found.result.tag # "Hang"

\* a call that returns after its loop followed a redirect to a node with
\* children
C29_FollowedWitness ==
    /\ found.result.tag = "Some"
    /\ Len(found.path) = 2
    /\ \E id \in Ids :
          /\ IsRedirect(nodes, id)
          /\ nodes[id].node.name = found.path[1]
          /\ id \in BuildChildren(nodes, ROOT)

(***************************************************************************)
(* Properties of the SourceFile: line_to_byte.                             *)
(***************************************************************************)
\* the offsets of the '\n' bytes of the text, in ascending order
RECURSIVE NewlineOffsets(_, _)
NewlineOffsets(string, from) ==
    IF from >= Len(string) THEN <<>>
    ELSE IF string[from + 1] = "\n" THEN <<from>> \o NewlineOffsets(string, from + 1)
    ELSE NewlineOffsets(string, from + 1)

\* the offset at which line l of the text starts
LineStart(string, l) == IF l = 0 THEN 0 ELSE NewlineOffsets(string, 0)[l] + 1

\* C30: for every line l from 0 to the number of '\n' of the text,
\* line_to_byte(l) is the offset at which line l starts, 0 for line 0 and
\* one past the l-th '\n' otherwise, and byte_to_line takes it back to l;
\* for every larger l line_to_byte is None.  So is the last line_to_byte
\* call.
C30_LineToByteIsLineStart ==
    LET count == NewlinesBefore(source.text, Len(source.text))
    IN /\ \A l \in 0..count :
             /\ LineToByte(source, l) = [some |-> TRUE, byte |-> LineStart(source.text, l)]
             /\ ByteToLine(source, LineToByte(source, l).byte) = [some |-> TRUE, line |-> l]
       /\ \A l \in (count + 1)..(MaxSourceText + 2) : LineToByte(source, l) = NoByte
       /\ source.start # NoStart =>
             source.start.byte = IF source.start.line <= count
                                 THEN [some |-> TRUE,
                                       byte |-> LineStart(source.text, source.start.line)]
                                 ELSE NoByte

\* what line_to_byte gives: 0 for line 0, the offset of the l-th '\n' itself
\* for l from 1 to the number of '\n', which byte_to_line takes to l - 1,
\* and None for every larger l
C30_LineToByteIsLineEnding ==
    LET count == NewlinesBefore(source.text, Len(source.text))
        offsets == NewlineOffsets(source.text, 0)
    IN /\ LineToByte(source, 0) = [some |-> TRUE, byte |-> 0]
       /\ \A l \in 1..count :
             /\ LineToByte(source, l) = [some |-> TRUE, byte |-> offsets[l]]
             /\ ByteToLine(source, offsets[l]) = [some |-> TRUE, line |-> l - 1]
       /\ \A l \in (count + 1)..(MaxSourceText + 2) : LineToByte(source, l) = NoByte
       /\ source.start # NoStart =>
             source.start.byte = LineToByte(source, source.start.line)

\* a line_to_byte call for the second line of an edited text of two line
\* endings
C30_SecondLineWitness ==
    /\ source.edits >= 1
    /\ Len(source.line_endings) = 2
    /\ source.start.line = 2
    /\ source.start.byte = [some |-> TRUE, byte |-> source.line_endings[2]]

\* a line_to_byte call one line past the last
C30_PastEndWitness ==
    /\ Len(source.line_endings) >= 1
    /\ source.start.line = Len(source.line_endings) + 1
    /\ source.start.byte = NoByte

====
